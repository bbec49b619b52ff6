# Formal model of alarme-intelbras

TLA+ specifications, TLC models and TLAPS proofs for the receivers of Intelbras
alarm panels in this repository: the Python programs `receptorip` and `comandar`
(`alarmeitbl/`) and the Go library behind `goreceptor` (`goalarmeitbl/`).
Identifiers keep the names of the code, which is in Portuguese.

## 1. The system and its parts

| Part | State | Operations | Modelled in |
|---|---|---|---|
| `Tratador` (tratador.py over myeventloop/tcpserver.py) | receive and send buffers, `ignorar`, `central_identificada`, five timers, backoff | accept, receive, send, consume a frame, identification, alarm event, timeouts | `Tratador` |
| `receptorip` | `alarme`, timers `watchdog` and `central_nc` | hooks every hour, limit of panels, start | `ReceptorIP` |
| `TratadorDeFotos`, `ObtemFotosDeEvento` | queue of photos, timer, one connection with its fragments and status | queue, download, result | `Fotos`, `FilaFotos` |
| `ComandarCentral` and its subclasses (comandos.py over tcpclient.py), `comandar` | status, `conn_timeout`, buffers, who gets the next answer | connect, authenticate, command, answer, NAK, goodbye, result | `ComandarCentral`; as the downloader uses it, `Fotos` |
| `utils_proto.py` | none (pure) | checksum, numbers, Contact ID, BCD, ISECNet2 packets | `Protocolo` |
| `myeventloop` (`Timeout`, `Handler`, `EventLoop`) | `Handler.items`, `Timeout.pending`, deadlines | new, restart, reset, cancel, destroy, cycle | `EventLoop`, `Agenda` |
| Go `TCPSession`, `Timeout`, `Parent` | channels `Events` and `to_send`, three goroutines, timers | Send, Close, Timeout | `TCPSession` |
| Go `TratadorReceptorIP` | buffer, three timeouts | the goroutine that reads `Events` | `TratadorReceptorIP` |
| Go `TCPServer`, `ReceptorIP`, `TCPClient`, `ComandoCentral`, `protocol.go` | | | not modelled |

How they interact. In Python everything runs in one thread: `EventLoop.cycle`
serves one socket or, if none is ready, one due timer. A `Tratador` calls
`valida_central` and `valida_maxconn`, installed by `receptorip`, and
`enfileirar` of the one `TratadorDeFotos`; a download reports to
`resultado_foto` when its handler is destroyed. An exception that a callback
does not catch leaves `loop()` and ends the process; the README of the
repository recommends a supervisor that starts it again. In Go every session has
a goroutine that reads, one that writes and one that handles events, timers post
on the same channel as the sockets, and a panic ends the process.

What is hard: timers racing the data that cancels them; attributes (`if not
self.to_x`) that stand for the state of a timer; a limit that is tested twice
with other connections in between; results applied to the head of a queue that
others append to; the loss of memory at a restart while the outside world keeps
what it was told; in Go, bounded channels that close a cycle of waiting
goroutines, and channels that are closed while somebody may still post.
`PROJECT.json` lists these hazards with the line and the properties for each.

## 2. Modules

**`Tratador`**. `Conns` is a set of connection slots, so it bounds only how many
connections are open at once: a destroyed connection leaves its slot for the next
one. One action per callback (`Aceita`, `RecebeQuadro`, `RecebeContinuacao`,
`RecebeIgnorada`, `send_callback`, the three timeouts, the cases of
`processar_msg`, `recuar_backoff`, `shutdown_callback`). `pend[c]` is what
`Timeout.pending` holds for the object, `atrib[c]` the attributes that are not
`None`; the code keeps the two apart, and `TimersCoerentes` says they agree.
Octets are abstracted to frames: kind, right or wrong length, recognised or not,
number of photos; the checksum is left out because a wrong one is only logged.
Several frames in one `recv` are several receive steps, which adds only
behaviours of a slower network. Time is abstracted to "a pending timer may fire".
Counters of frames, answers and events record what has happened and feed no guard
except the bound `MaxQuadros`. `FalhaProcesso` is an identification frame without
a body, whose first octet `identificacao_central` reads without testing.

**`ReceptorIP`** extends it with the timers that have no owner, the alarm of
`central_nao_conectada`, the last parameter given to `gancho_central`, and
crashes and restarts of the process.

**`Fotos`**. `task` tells apart a timer attribute that is `None`, one pending
and one that has fired and is waiting for `restart()` ("gasta"): `enfileirar`
tests only the first. `fase[d]`, `status[d]`, `conn_timeout[d]`, `jpeg[d]`
describe the connection objects. The panel is arbitrary: any answer, in any
phase, any fragment of any photo. `Ids` must hold more than one identity for
`UmDownloadPorVez` to say something. **`FilaFotos`** is the abstract
specification: a first-in first-out queue whose head is tried a bounded number of
times; a restart may empty it.

**`TCPSession`** has one program counter per goroutine (`recv`, `send`, `fim` for
the one that `Close` starts), the contents and closed flag of both channels, the
state of the timers, and `voo`, the callbacks that the Go runtime has started and
that have not posted yet. A step is what a goroutine does between two operations
on a channel, the socket or the wait group. Which of several blocked senders goes
first is left open. A read returns a segment: the frames it completes and whether
part of another one follows. **`TratadorReceptorIP`** extends it with the
goroutine of the receiver. Alarm events are questions like the others there: what
the hooks get is a matter of `Tratador`'s model, and their running time is already
covered by interleaving.

**`EventLoop`** is the loop itself, with arbitrary code in the callbacks: any
sequence of calls of the interface (`timeout`, `reset`, `restart`, `cancel`,
`destroy`, a new handler), any of which may raise and end `loop()`. `pc` says
where the cycle is (in a callback, before `select`, in `select`, in `handle`).
`agora` is `time.time()`, which someone may set; `espera` is what is left of the
wait of `select()`, which runs on a clock that nobody sets. The order of Python's
dictionaries only chooses among ready descriptors and among equal deadlines, and
is left open. **`Agenda`** is what the loop promises to those who set timers, with
no descriptors or cycles: a callback is never early, never out of the order of
deadlines, never runs beside another, never once cancelled; the timers that are armed
when their owner dies are dead for good, and none is created for a dead owner. It says
nothing of a timer that is spent or cancelled at that moment, which the code lets anyone
re-arm. The refinement mapping (`Contrato`) shows a running callback only if it is a timer's.
The other Python modules take this contract for granted, with time abstracted.

**`Ritmo`** extends `Tratador` with the durations of its five timers, in eighths of
a second: each step is a step of `Tratador` taken when its timer is due
(`resta[c][t] = 0`). Time jumps to the next deadline or by one of `Saltos`. `atraso`
is `self.backoff`, which `Dobra` and `Metade` change; `idade` and `folga` are measures
that the properties read and no guard does. It is the only module where the doubling
delay and the 60, 120 and 600 second timeouts race each other in their real proportions.

**`Protocolo`** has the encodings as operators on sequences of octets. The checksum
is given bit by bit: a bit is set if an even number of octets has it (`BitPar`),
which is what the code's exclusive or with 255 comes to; `ChecksumConfere` in
`MCComandarCentral` compares it with the fold of the code on sample data. `bcd` and
`from_bcd` are there for `BcdConfere` and `BcdIdaEVolta`: no module sends a date or an
account number. And
**`ComandarCentral`** the command client on top of them: real packets, with real
checksums and lengths, received in pieces cut anywhere. The panel is not part of
the repository. It is modelled from the comments and packets of `comandos.py`: it
understands a packet, answers each one once at most, executes a command only
after accepting its own password, and may instead refuse, send nonsense (wrong
checksum, impossible length, an answer to something else), keep silent or close.
`destroy` ends the program, because the observer exits or nothing is left in the
loop; an exception in a callback ends it too (`saida = "excecao"`).

`MC*` modules only name frames and segments for the TLC runs. Names ending in `_defeito` are
deliberately wrong variants of the definition that follows them,
used to see that a property notices; no specification uses them.

## 3. What TLC checks

| Run | Instance | Result |
|---|---|---|
| `tratador` | 1 connection, 3 frames of 9 kinds, whole or in parts | invariants and liveness hold |
| `receptor` | 2 connections, limit 1, 2 identifications each, a crash | invariants and liveness hold |
| `fotos` | 2 photos, 4 announcements, 3 attempts, 3 fragments, 2 object identities | invariants, refinement of `FilaFotos`, liveness hold |
| `sessao_go` | real queue depths, 2 reads that fill both queues, 2 timeouts | invariants and liveness hold |
| `laco` | 2 handlers, 2 owned timers and a global one, delays 0, 1 and 3, horizon 3, 5 calls, a clock set once | invariants, refinement of `Agenda`, liveness hold |
| `ritmo` | 1 connection, 12 frames, real durations | invariants hold |
| `comandar` | the 7 commands, targets at the edges (none, 0, 1, 254, 255, 256), 4 passwords, any cut of the answers | invariants, action property, liveness hold |
| `tratador_reident` | 2 connections, limit 1 | `IdentificadaNaoIgnorada` fails |
| `receptor_gancho` | 1 connection, a crash | `GanchoResolvido` fails |
| `fotos_conexao` | 1 photo | `TentativaTemDownload` fails |
| `sessao_go_send` | a burst of 7 questions | `SendTermina` fails |
| `sessao_go_close` | 1 timeout | `CloseCala` fails |

Why the bounds are enough to be interesting. Connections share only the limit, so
one connection is enough for what concerns one (the proofs confirm it for any
number), and two under a limit of one reach the window between acceptance and
identification. Three frames are two left in the buffer while one is consumed,
with part of another behind them; recognised, unrecognised, misshapen and empty
ones are all there. Four announcements allow a photo to be announced while it is
being fetched and again after. Three attempts and three fragments have a first, a
middle and a last one. In Go the queues have their real depths and seven answers
(one being written, three "Sent" events, two queued, one in `Send`) are what it
takes to fill them. In the event loop five calls are enough to create three
timers, make two due at once and cancel, re-arm or invalidate one from the
callback of another, and the longest delay is just out of sight of `_next()`. The twelve frames of `ritmo` are the limit of the code, not
of the model: with thirteen, `MensagemAntesDoTimeout` fails, because the delay has
grown to 2^13 eighths of a second, 1024 s, against 600 of `to_comm`. One jump
(`Saltos`) of 7.5 s besides the jumps to deadlines lets data arrive between two
deadlines. The passwords of `comandar` have a zero, are reversed, longer than
their declared length and of another length than the panel's.

Fairness. Python: a pending timer that nothing restarts fires (`processar_msg`,
`to_ident`, `to_incompleta`, the backoff, the supervision timers). This assumes
that sockets leave the loop idle now and then, since a ready socket goes before
any timer. `to_comm` is restarted by each reception of a treated connection, so it
is only assumed to fire on an ignored one, whose data restarts nothing. A
supervisor restarts a dead process. Nothing is assumed of the network or the
panel. `EventLoop`: callbacks return, the loop goes on and time never stops,
however often it is interrupted (strong fairness of `Passa`). Nothing is assumed of the
descriptors; `TimerAcabaRodando` has as its hypothesis that they do not starve the
timers (`Ociosidade`, strong fairness of the cycle with no ready descriptor), which is
what the other modules' fairness assumes. Without it TLC shows a handler that is served
for ever. The number of calls is bounded, so no timer is postponed for ever there, and
the clock runs past the last deadline, so a timer that `_next()` overlooked would stay
pending and be noticed. `ComandarCentral`: the program starts and a timer that nothing
restarts fires, nothing of the panel. Go: a runnable goroutine runs; a read or a write
is only sure to return once the connection has ended or been closed. `SpecPainelLe`
adds that the panel reads what it is sent; it is used only to show that `Send` blocks even then.

Deadlock checking is off where the program may come to rest: an empty photo queue,
a Go session that has ended, a loop that has returned, a command that is done, or
(in `laco`) a clock at its bound.

### Disagreements between the code and what is written about it

1. `tratador_reident`: at the limit, an identified connection that identifies
   itself again is counted against itself and ignored (it ends by `to_comm`);
   README.md:96 says this of new connections.
2. `receptor_gancho`: `gancho_central` is told 1, the program restarts, a panel
   connects, and 0 is never sent, because `alarme` starts at 0.
3. `fotos_conexao`: a `connect()` that fails at once raises out of the event loop
   instead of reaching `connection_callback`, and the receiver ends.
4. `sessao_go_send`: seven questions in one read block the session for ever, with
   its timeouts.
5. `sessao_go_close`: a timeout callback that has started posts after `Close` (a
   send on a closed channel, which panics). By the same window it posts after
   `Free`, and an identified connection may be closed by a late `to_ident`.

Met while modelling and not made into runs: `loop()` is documented to run "until
there are no Handlers or Timeouts pending", but does not see timers beyond 86400
seconds (`FimSemPendencias` says which timers it may give up; no program has one); and
`Handler.timeout()` documents that its timers are "automatically cancelled and
invalidated when the handler is destroyed", but one that is spent or cancelled at
that moment is left as it is and could be armed again. And, read in code that is not
modelled: tcpserver.go:79 says of `Close` that "Sessions already accepted by the user
are not affected.", but `NewTCPSession` never calls `Adopt`, so such a session posts
its end on the channel that `Close` has closed.

`RespostasConferem` of `Tratador` excludes identifications of a wrong length:
`identificacao_central` answers those and goes on, so an accepted one is answered
twice. `SalvaEhSucesso` and the others hold with no such exception.

## 4. What TLAPS proves

Every invariant of every passing run, both refinements and both action
properties, for every value of the constants (any number of connections, any limit,
any set of frames; any photos, attempts and identities; any handlers and timers; any
command line, password and cut of the stream):

| Module | Theorems |
|---|---|
| `TratadorProofs` | `TipoCorreto`, `TimersSempreCoerentes`, `BufferSempreSupervisionado`, `ConexaoSempreSupervisionada`, `LimiteRespeitado`, `EventosSempreConferem`, `RespostasSempreConferem` |
| `ReceptorIPProofs` | `LimiteNoPrograma`, `RespostasNoPrograma`, `SupervisaoNoPrograma`: the same for the whole program |
| `RitmoProofs` | `RitmoImplementaTratador` (`TSpec => Spec`), `AtrasoSempreConferido`, `PrazoSempreCumprido`, `VazaoSempreLimitada`, `MensagemSempreAntes` (if `MaxQuadros <= 12`) |
| `FotosProofs` | `TipoFotos`, `UmDeCadaVez`, `CabecaCerta`, `FilaSempreSupervisionada`, `JpegSempreEmOrdem`, `FotosImplementaFila` (refinement), `SalvaSai` (action property) |
| `EventLoopProofs` | `TipoEventLoop`, `SonoSempreLimitado`, `FimSempreVazio`, `LacoImplementaAgenda` (refinement) |
| `TratadorReceptorIPProofs` | `TipoSessao`, `FechamentoSempreOrdenado`, `RespostasSempreConferem`, `SessaoSempreVigiada` |
| `ProtocoloProofs` | `ChecksumDoSufixo`, `PacoteIdaEVolta`, `PrefixoNaoBasta`, `ContactIdIdaEVolta`, `BcdIdaEVolta` |
| `ComandarCentralProofs` | `TipoComando`, `ExecutaSempreOPedido`, `SucessoSempreConfirmado`, `SempreSemSobra`, `SenhaSempreExata`, `ConfirmadoSempreSucesso` (action property) |

Arguments.

*Supervision* (`Tratador`): none of the three invariants is inductive alone.
`InvConexao(c)` joins them and adds that a closed slot keeps nothing of its last
object (`FechadaLimpa`), which `Aceita` needs. Each callback re-establishes it for
its own connection and leaves the others alone (`OutraIntacta`), or destroys some.

*Limit*: a step either adds no identified connection, or found `valida_maxconn` true
and adds one (`PassoIdentificadas`); the rest is cardinality. It needs `FechadaLimpa`
too, since an accepted connection must not inherit an identification.

*Events and answers*: the events in a buffer are the cardinality of the set of their
positions, so that appending, completing the last frame and taking the first one
away are lemmas about sets (`EventosAppend` and its companions) and no induction is
needed. `InvConta` adds the counts of a closed slot; `InvResposta` has an equality for
a treated connection and an inequality for an ignored one.

*The whole program*: `InvConexoes` joins the invariants of all connections. A step of
`ReceptorIP` is a callback of `Tratador`, the death of the process, a restart, or
leaves the connections alone, and each keeps `InvConexoes`.

*Durations* (`Ritmo`): the delay is a power of two, but the provers cannot do
induction over it. `Potencia(n, a)` says instead that some function on `0 .. n` starts
at 1, doubles at each step and ends in `a`; doubling extends it, halving restricts it.
What any step of `Tratador` does to one connection is one of seven effects (`Fechou`,
`Abriu`, `Seguiu`, `Recebeu`, `Tratou`, `Recuou`, `Passou`), and `InvTempo` is shown for
these. Its parts are potentials: age plus time left to `to_ident` is at most 120 s;
how far a connection is ahead of one message a second is paid for by the pauses still
due (`FolgaContida`); a message that waits and `to_comm` are compared through the
power of two reached when all messages so far are counted (`EsperaContida`). The last
one gives `MensagemAntesDoTimeout` up to twelve frames, and TLC shows that it fails
with thirteen, so the hypothesis `MaxQuadros <= 12` is exact.

*Photos*: `Inv` joins the invariants and "nothing survives a dead process"; the result
that `destroy` reports is charged to the head of the queue, which is the photo of the
only download because `task` is spent while there is one. The refinement mapping is
the identity on `fila` and `ultimo`, and each concrete step is a step of `FilaFotos` or
leaves both alone (`PassoDestroi`, `DestroyAbstrato`).

*Event loop*: `_next()` returning nothing must mean that no pending timer is within
the horizon, which needs a least deadline to exist (`Minimo`, from the
well-foundedness of the naturals). `InvLaco` adds to `SonoLimitado` that nobody runs
between callbacks (needed for "one at a time") and that a deadline is at most
its delay and the adjustments of the clock away (needed for the end of `loop()`). The
part of `Agenda` about owners needs no invariant: each call tests what it asks for.

*Go session*: `InvFecho` follows `Close` through its goroutine: the channel is closed
only past `DisownAll` and the wait group, and only a callback already in flight can
still panic. `InvVigia` says where the supervision of each timer is (armed, in flight
or queued) at every program counter of the handler, not only between events, and that
a received segment is never empty.

*Packets*: the octets of a packet that have a given bit are a set, so adding the
checksum adds one position or none (`ChecksumDoSufixo`). The fields of a built packet
are computed once (`Campos`) and give the round trip; a proper beginning has the
length field or is too short to have one (`PrefixoNaoBasta`).

*Digits*: `ContactIdIdaEVolta` says what a loop computes for a number of any length.
`contact_id_decode` is a recursive function, which the definition gives as some function
that satisfies its equation. `number % 10^k` is shown to satisfy the equation too (adding
the next digit is `MaisUmDigito`), and two functions that do so agree everywhere
(`ResultadoDaSoma`): otherwise there is a least `k` where they differ (`MenorNatural`,
from the well-foundedness of the naturals, in the place of an induction), and the
equation carries the agreement at `k - 1` over to it. `BcdIdaEVolta` is about the two
octets of an account number, so three values of the loop's variables suffice.

*Dialogue* (`ComandarCentral`): `Controle` is what can be said without octets. The rest,
`InvDialogo`, is one of four phases: before, identification, command, goodbye. In
each, the question is still in transit with every buffer empty (`EmTransito`), or the
panel has read it and what was received together with what is still to come is
exactly one answer (`Lida`). An answer is complete exactly when all of it is there
(`LeituraPacote`), so nothing is left for the next question, and no refusal, the three
malformed ones included, is read as the answer that the client expects
(`RecusaNaoServe`). That the panel carries out what was asked is `ComandoEntendido`.
`SenhaSempreExata` uses that the packet which the panel reads while it waits for an
identification is the client's (`Chegada`), and the round trip of its digits.

The assumptions on constants are the named `ASSUME`s of the modules; TLC evaluates
them in every run. Two deserve a word: `SenhaCabe` (a password shorter than the 16-bit
length of a packet) and `PotenciasAssumption` (`10 ^ 0 = 1` and `10 ^ (i + 1) = 10 * 10 ^ i`
up to the length of the passwords), truths of arithmetic stated because the provers do
not know `^`; `ContactIdIdaEVolta` has the same facts as its hypothesis `Potencias`.

Only model-checked: liveness, which is outside the prover's reach, and that counting
bits gives the exclusive or of the code's `checksum` (`ChecksumConfere`, on samples).

## 5. What is not modelled, and the plan

Not modelled: parsing of the configuration, logs (`Log`), `background()`, the hook
scripts, the wording of messages and of the status report, `udpserver.py` (unused),
the date and the account number as they are sent, printed and given to `bcd` and
`from_bcd`, and `comandar` with more than one argument after the command, which it
ignores. Of the Go programs the session and the connection of the receiver are modelled; the server, the
command client and the translation of the encodings are not.

What is left, in this order:

1. Go `TCPServer` and `ReceptorIP`: sessions, accepts and timeouts that all wait on one
   channel without a buffer, and `Close` racing them.
2. Go `TCPClient` and `ComandoCentral` on top of `TCPSession`, with `Send(nil)`. Whether
   `Send` may block there depends on the order in which Go serves those who wait on a
   full channel, which `TCPSession` leaves open.
3. `ReceptorIP` composed with `Fotos`: the calls of `enfileirar`.
4. Proofs for these modules as they come. Of what exists, only liveness is left to TLC.

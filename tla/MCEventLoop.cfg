\* Delays within and at the horizon, a clock that is set once, and idle cycles.
SPECIFICATION SpecJusta
CONSTANTS
  h1 = h1
  h2 = h2
  t1 = t1
  t2 = t2
  t3 = t3
  Handlers = {h1, h2}
  Timers = {t1, t2, t3}
  Ninguem = Ninguem
  Dono <- DonoMC
  Atrasos = {0, 1, 3}
  Horizonte = 3
  MaxTempo = 3
  MaxAjustes = 1
  MaxChamadas = 5
INVARIANTS
  TypeOK
  SonoLimitado
  FimSemPendencias
PROPERTIES
  ImplementaAgenda
  TimerAcabaRodando
CHECK_DEADLOCK FALSE

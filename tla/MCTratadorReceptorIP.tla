------------------------ MODULE MCTratadorReceptorIP ------------------------
(* Segments for the model-checking instances of TratadorReceptorIP.        *)
EXTENDS TratadorReceptorIP

TresTimeouts == {"to_ident", "to_comm", "to_incompleta"}

seg(quadros, resto) == [quadros |-> quadros, resto |-> resto]

\* Half a frame; the other half, of an identification, with a frame that is
\* not answered and six questions after it: enough to fill both queues.
SegmentosVarios ==
  {seg(<<>>, TRUE),
   seg(<<"identifica", "mudo", "pergunta", "pergunta", "pergunta", "pergunta",
         "pergunta", "pergunta">>, FALSE)}

\* A burst of questions, as long as a read of 1500 octets easily holds.
SegmentosRajada ==
  {seg(<<"pergunta", "pergunta", "pergunta", "pergunta", "pergunta", "pergunta",
         "pergunta">>, FALSE)}

SegmentosIdent == {seg(<<"identifica">>, FALSE)}
=============================================================================

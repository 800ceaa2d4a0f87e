-------------------------- MODULE MCThreadedClient --------------------------
(***************************************************************************)
(* Instances of ThreadedClient: threads that call and read while another   *)
(* shuts the client down, or drops it, or a callback does.                 *)
(***************************************************************************)
EXTENDS ThreadedClient

CONSTANTS t1, t2, t3

MCThreads == {t1, t2, t3}

Does(a, b, c, messages, callback, drain) ==
    [ops |-> [t \in MCThreads |-> CASE t = t1 -> a [] t = t2 -> b [] t = t3 -> c],
     messages |-> messages, callback |-> callback, drain |-> drain]

MCPrograms ==
    { Does(<<"query">>, <<"shutdown">>, <<>>, 0, "none", "zero"),
      Does(<<"write">>, <<"shutdown">>, <<>>, 0, "none", "some"),
      Does(<<"send">>, <<"shutdown">>, <<"shutdown">>, 0, "none", "zero"),
      Does(<<"send", "flush">>, <<"shutdown">>, <<>>, 0, "none", "some"),
      Does(<<"call">>, <<"read">>, <<>>, 1, "shutdown", "zero"),
      Does(<<"read">>, <<"read">>, <<"shutdown">>, 1, "none", "zero"),
      Does(<<"read">>, <<"read">>, <<>>, 2, "none", "some"),
      Does(<<"send">>, <<"drop">>, <<>>, 1, "send", "some") }
=============================================================================

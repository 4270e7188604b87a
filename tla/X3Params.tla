------------------------------ MODULE X3Params ------------------------------
(***************************************************************************)
(* The X.3 parameters of a PAD and the requests of the other PAD: what a   *)
(* parameter admits (libxotpad/src/x3.rs, src/x3.rs), how requests are     *)
(* served (pad.rs).  Parameters are a function from their numbers; those   *)
(* from 16 on belong to the delegate, which a PAD may lack.                *)
(***************************************************************************)
EXTENDS X29Codec

OwnParams == <<2, 3, 4, 13, 15>>       \* echo, forward, idle, lf_insert, editing
DelegateParams == <<16, 17, 18>>       \* char_delete, line_delete, line_display
AllParams == OwnParams \o DelegateParams

(* The values each TryFrom accepts. *)
X3Echo == {0, 1}
X3Forward == 0 .. 127
X3Idle == 0 .. 255
X3LfInsert == 0 .. 7
X3Editing == {0, 1}
X3CharDelete == {127}
X3LineDelete == 0 .. 127
X3LineDisplay == 0 .. 127

Admitted(p) == CASE p = 2 -> X3Echo        [] p = 3 -> X3Forward     [] p = 4 -> X3Idle
                 [] p = 13 -> X3LfInsert   [] p = 15 -> X3Editing
                 [] p = 16 -> X3CharDelete [] p = 17 -> X3LineDelete [] p = 18 -> X3LineDisplay

(* What each bit of the forward parameter forwards: letters and digits,    *)
(* CR, ESC BEL ENQ ACK, DEL CAN DC2, EOT ETX, HT LF VT FF, the others of   *)
(* IA5 columns 0 and 1.                                                    *)
ForwardClasses ==
    <<(48 .. 57) \cup (65 .. 90) \cup (97 .. 122), {13}, {27, 7, 5, 6}, {127, 24, 18}, {4, 3},
      {9, 10, 11, 12},
      {0, 1, 2, 8, 14, 15, 16, 17, 19, 20, 21, 22, 23, 25, 26, 28, 29, 30, 31}>>

BitWeights == <<1, 2, 4, 8, 16, 32, 64>>

IsForward(value, octet) ==
    \E i \in 1 .. 7 : (value \div BitWeights[i]) % 2 = 1 /\ octet \in ForwardClasses[i]

(* The order of all(). *)
ParamsInOrder(params) == SelectSeq(AllParams, LAMBDA p : p \in DOMAIN params)

GetParam(params, p) ==
    IF p \in DOMAIN params THEN Value(p, params[p]) ELSE Refusal(p, "Unsupported")

(* Slip: the new value is stored before it is looked at. *)
SetParamUnchecked(params, p, v) ==
    IF p \in DOMAIN params THEN [params EXCEPT ![p] = v] ELSE params

SetParam(params, p, v) ==
    IF p \in DOMAIN params /\ v \in Admitted(p) THEN [params EXCEPT ![p] = v] ELSE params

SetError(params, p, v) ==
    CASE p \notin DOMAIN params -> <<Refusal(p, "Unsupported")>>
      [] p \in DOMAIN params /\ v \notin Admitted(p) -> <<Refusal(p, "InvalidValue")>>
      [] OTHER -> <<>>

(* Each pair in turn: a refused one does not keep the others from being    *)
(* set.  A Set is answered with the refusals, a SetRead with every pair.   *)
Served(params, request, readBack) ==
    FoldLeft(LAMBDA done, pair :
                 LET error == SetError(done.params, pair[1], pair[2])
                     after == SetParam(done.params, pair[1], pair[2])
                     value == IF readBack THEN <<GetParam(after, pair[1])>> ELSE <<>>
                 IN  [params   |-> after,
                      response |-> done.response \o (IF error = <<>> THEN value ELSE error)],
             [params |-> params, response |-> <<>>], request)

(* Serving a request of the other PAD: the parameters after it and the     *)
(* answers, none or one.  An empty Set or SetRead meets a todo!().         *)
Serve(params, message) ==
    CASE message.kind = "Read" ->
            [params |-> params,
             answers |-> {Indicate([i \in DOMAIN asked |-> GetParam(params, asked[i])]) :
                 asked \in {IF message.request = <<>> THEN ParamsInOrder(params)
                                                      ELSE message.request}}]
      [] message.kind = "Set" ->
            LET done == Served(params, message.request, FALSE)
            IN  [params |-> done.params,
                 answers |-> IF done.response = <<>> THEN {} ELSE {Indicate(done.response)}]
      [] message.kind = "SetRead" ->
            LET done == Served(params, message.request, TRUE)
            IN  [params |-> done.params, answers |-> {Indicate(done.response)}]
=============================================================================

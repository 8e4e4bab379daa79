----------------------------- MODULE MCFsmLink ------------------------------
(***************************************************************************)
(* Values for the functions of FsmLink that a cfg cannot write.            *)
(***************************************************************************)
EXTENDS FsmLink

(* A server that prefers CHAP and accepts PAP; a client with a PAP secret    *)
(* only, that demands nothing.                                             *)
ServerWant == [e \in Ends |-> IF e = "a" THEN {"chap", "pap"} ELSE {}]
ClientAllow == [e \in Ends |-> IF e = "b" THEN {"pap"} ELSE {}]

(* Both ends demand: a prefers CHAP and b can do PAP only, b demands CHAP    *)
(* and a can do that.                                                      *)
MutualWant == [e \in Ends |-> IF e = "a" THEN {"chap", "pap"} ELSE {"chap"}]
MutualAllow == [e \in Ends |-> IF e = "a" THEN {"chap"} ELSE {"pap"}]
=============================================================================

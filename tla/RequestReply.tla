----------------------------- MODULE RequestReply -----------------------------
(***************************************************************************)
(* What the MCP bridge promises to a client and to 1C, without numbers,    *)
(* maps, channels or restarts: a call is open for a while; the first       *)
(* answer given to it while it is open is its answer; it ends once, either *)
(* with that answer or with an error.  An error other than the timeout     *)
(* says that no answer was accepted.                                       *)
(***************************************************************************)
CONSTANTS Calls, Answers, NoAnswer

VARIABLES phase, answer, result

absVars == <<phase, answer, result>>

Init ==
    /\ phase = [c \in Calls |-> "new"]
    /\ answer = [c \in Calls |-> NoAnswer]
    /\ result = [c \in Calls |-> "none"]

Open(c) ==
    /\ phase[c] = "new"
    /\ phase' = [phase EXCEPT ![c] = "open"]
    /\ UNCHANGED <<answer, result>>

Give(c, a) ==
    /\ phase[c] = "open"
    /\ answer[c] = NoAnswer
    /\ answer' = [answer EXCEPT ![c] = a]
    /\ UNCHANGED <<phase, result>>

End(c, how) ==
    /\ phase[c] = "open"
    /\ phase' = [phase EXCEPT ![c] = "ended"]
    /\ result' = [result EXCEPT ![c] = how]
    /\ UNCHANGED answer

EndWithAnswer(c) == answer[c] # NoAnswer /\ End(c, "reply")
EndWithError(c)  == answer[c] = NoAnswer /\ \E e \in {"refused", "closed"} : End(c, e)
EndWithTimeout(c) == End(c, "timeout")

Next ==
    \E c \in Calls :
        \/ Open(c)
        \/ \E a \in Answers : Give(c, a)
        \/ EndWithAnswer(c)
        \/ EndWithError(c)
        \/ EndWithTimeout(c)

Spec == Init /\ [][Next]_absVars
=============================================================================

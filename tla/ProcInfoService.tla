--------------------------- MODULE ProcInfoService ---------------------------
(***************************************************************************)
(* What find_proc_info promises to the threads that unwind through one     *)
(* module: every request is answered once, with what parsing the module's  *)
(* unwind sections yields for the address, whatever other threads do.      *)
(***************************************************************************)
CONSTANTS
    Thread,
    Addr,
    None,
    Answer(_)    \* Answer(ip): the parse result for an address

VARIABLES phase, request, reply

svars == <<phase, request, reply>>

Init ==
    /\ phase = [t \in Thread |-> "idle"]
    /\ request = [t \in Thread |-> None]
    /\ reply = [t \in Thread |-> None]

Ask(t, ip) ==
    /\ phase[t] = "idle"
    /\ phase' = [phase EXCEPT ![t] = "asked"]
    /\ request' = [request EXCEPT ![t] = ip]
    /\ UNCHANGED reply

Reply(t) ==
    /\ phase[t] = "asked"
    /\ phase' = [phase EXCEPT ![t] = "answered"]
    /\ reply' = [reply EXCEPT ![t] = Answer(request[t])]
    /\ UNCHANGED request

Return(t) ==
    /\ phase[t] = "answered"
    /\ phase' = [phase EXCEPT ![t] = "idle"]
    /\ request' = [request EXCEPT ![t] = None]
    /\ reply' = [reply EXCEPT ![t] = None]

Next == \E t \in Thread : (\E ip \in Addr : Ask(t, ip)) \/ Reply(t) \/ Return(t)

Spec == Init /\ [][Next]_svars
=============================================================================

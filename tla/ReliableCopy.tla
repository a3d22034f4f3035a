---------------------------- MODULE ReliableCopy ----------------------------
(***************************************************************************)
(* What one data transfer promises its user.  Bytes come from a source     *)
(* that may still be growing until it is closed, and arrive in a sink.     *)
(* The sink is at all times a prefix of the source: nothing is lost,       *)
(* duplicated or reordered.  A transfer may fail at any point, but it may  *)
(* report completion only when the source is closed and all of it arrived. *)
(***************************************************************************)
EXTENDS Naturals, Sequences

CONSTANT Bytes

VARIABLES source, closed, sink, status

copyVars == <<source, closed, sink, status>>

\* s is an initial segment of t.
Prefix(s, t) == Len(s) <= Len(t) /\ \A i \in 1..Len(s) : s[i] = t[i]

CopyInit ==
    /\ source \in Seq(Bytes)
    /\ closed \in BOOLEAN
    /\ sink = << >>
    /\ status = "running"

Produce ==
    /\ ~closed
    /\ source' \in Seq(Bytes)
    /\ Prefix(source, source')
    /\ UNCHANGED <<closed, sink, status>>

Close == closed' = TRUE /\ UNCHANGED <<source, sink, status>>

Deliver ==
    /\ status = "running"
    /\ sink' \in Seq(Bytes)
    /\ Len(sink') > Len(sink) /\ Prefix(sink, sink') /\ Prefix(sink', source)
    /\ UNCHANGED <<source, closed, status>>

Complete ==
    /\ status = "running"
    /\ closed /\ sink = source
    /\ status' = "complete"
    /\ UNCHANGED <<source, closed, sink>>

Fail ==
    /\ status = "running"
    /\ status' = "failed"
    /\ UNCHANGED <<source, closed, sink>>

CopyNext == Produce \/ Close \/ Deliver \/ Complete \/ Fail

CopySpec == CopyInit /\ [][CopyNext]_copyVars
=============================================================================

----------------------------- MODULE AtomicStore -----------------------------
(***************************************************************************)
(* What the users of a private file may count on, whatever fails: it always *)
(* holds nothing or one whole value; a call that succeeds took effect at    *)
(* one moment between its start and its return, and a save or remove that   *)
(* fails at none.  A load answers the value of that moment.                 *)
(***************************************************************************)
CONSTANTS Threads, Values, None

VARIABLES
    value,      \* the contents, or None
    call        \* the calls in progress, and how each thread's last one ended

Entry(op, arg, took, ok, got) == [op |-> op, arg |-> arg, took |-> took, ok |-> ok, got |-> got]
Ended(ok, got) == Entry("none", None, FALSE, ok, got)
Idle == Ended(TRUE, None)

Init == value \in Values \cup {None} /\ call = [t \in Threads |-> Idle]

Becomes(t, entry) == call' = [call EXCEPT ![t] = entry]

Start(t) ==
    /\ call[t].op = "none"
    /\ \E op \in {"save", "load", "remove"}, arg \in Values \cup {None} :
          Becomes(t, Entry(op, arg, FALSE, TRUE, None))
    /\ UNCHANGED value

Effect(t) == value' = CASE call[t].op = "save" -> call[t].arg
                        [] call[t].op = "remove" -> None
                        [] OTHER -> value

Answered(t) == IF call[t].op = "load" THEN value ELSE None

Take(t) ==
    /\ call[t].op # "none" /\ ~call[t].took
    /\ Effect(t)
    /\ Becomes(t, Entry(call[t].op, call[t].arg, TRUE, call[t].ok, Answered(t)))

Succeed(t) ==
    /\ call[t].op # "none"
    /\ IF call[t].took THEN Becomes(t, Ended(TRUE, call[t].got)) /\ UNCHANGED value
       ELSE Becomes(t, Ended(TRUE, Answered(t))) /\ Effect(t)

Fail(t) ==
    /\ call[t].op # "none" /\ (call[t].op = "load" \/ ~call[t].took)
    /\ Becomes(t, Ended(FALSE, None)) /\ UNCHANGED value

\* The process or the machine goes down, and every call with it.
Crash == call' = [t \in Threads |-> Idle] /\ UNCHANGED value

Next == Crash \/ \E t \in Threads : Start(t) \/ Take(t) \/ Succeed(t) \/ Fail(t)

Spec == Init /\ [][Next]_<<value, call>>
=============================================================================

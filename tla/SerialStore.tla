----------------------------- MODULE SerialStore -----------------------------
(***************************************************************************)
(* What the transaction manager promises its callers: every call takes     *)
(* effect, if at all, at one instant between its invocation and its        *)
(* return, on the contents the store has at that instant.                  *)
(***************************************************************************)
EXTENDS Integers, Sequences

CONSTANTS Client, Key, Content, Absent

VARIABLES
    hist,   \* every content the store has had, the latest last
    began,  \* how long hist was when each client's call was invoked
    out     \* what each client's call told its caller

None   == [k \in {} |-> Absent]     \* no key at all, with its content
Latest == hist[Len(hist)]

Init ==
    /\ hist = <<[k \in Key |-> Absent]>>
    /\ began = [c \in Client |-> 1]
    /\ out = [c \in Client |-> [status |-> "idle", reads |-> None, writes |-> None]]

Invoke(c) ==
    /\ out[c].status # "open"
    /\ began' = [began EXCEPT ![c] = Len(hist)]
    /\ out' = [out EXCEPT ![c] = [status |-> "open", reads |-> None, writes |-> None]]
    /\ UNCHANGED hist

Answer(c, status, reads, writes) ==
    /\ out[c].status = "open"
    /\ out' = [out EXCEPT ![c] = [status |-> status, reads |-> reads, writes |-> writes]]
    /\ UNCHANGED began

\* A new content of the store; said first, so that TLC looks for the reads
\* and writes of an answer only in the steps that make one.
Changes == Len(hist') = Len(hist) + 1

\* The keys R are read and the contents w written at one and the same instant.
Write(c) ==
    /\ Changes
    /\ \E W \in SUBSET Key : \E w \in [W -> Content], R \in SUBSET Key :
          /\ Answer(c, "ok", [k \in R |-> Latest[k]], w)
          /\ hist' = Append(hist, [k \in Key |-> IF k \in W THEN w[k] ELSE Latest[k]])

\* A call that writes nothing saw the whole store as it was at an instant
\* since its invocation.
Observe(c, i) ==
    /\ i \in began[c] .. Len(hist)
    /\ Answer(c, "ok", hist[i], None)
    /\ UNCHANGED hist

\* A call that fails has had no effect ...
Fail(c) == Answer(c, "failed", None, None) /\ UNCHANGED hist

\* ... unless the commit itself was reported lost.
Lose(c) ==
    /\ Changes
    /\ Answer(c, "lost", None, None)
    /\ \E s \in [Key -> Content] : hist' = Append(hist, s)

\* A write outside the manager (Engine.Set, SetObject, Delete).
Blind(k, x) ==
    /\ Changes
    /\ hist' = Append(hist, [Latest EXCEPT ![k] = x])
    /\ UNCHANGED <<began, out>>

Next ==
    \/ \E c \in Client :
          \/ Invoke(c)
          \/ Write(c)
          \/ \E i \in 1 .. Len(hist) : Observe(c, i)
          \/ Fail(c)
          \/ Lose(c)
    \/ \E k \in Key, x \in Content : Blind(k, x)

svars == <<hist, began, out>>

Spec == Init /\ [][Next]_svars

=============================================================================

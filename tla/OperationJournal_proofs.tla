----------------------- MODULE OperationJournal_proofs -----------------------
(***************************************************************************)
(* Proofs about OperationJournal, for every set of requests and inputs and *)
(* every bound.  The inductive invariant has two parts: JournalInv relates *)
(* the journal to the world (which attempts were started, which took       *)
(* effect, what was answered) and holds whatever the process is doing;     *)
(* ProcessInv relates the process to the journal.  A failed write leaves   *)
(* the process idle with the old or the new journal, so an action that     *)
(* writes is proved by showing JournalInv of the journal it writes.        *)
(***************************************************************************)
EXTENDS OperationJournal, TLAPS

\* The part of the invariant about a journal j, running attempts r, applied
\* attempts a and answers x.
JournalInv(j, r, a, x) ==
    /\ j \in Seq(OperationRecord)
    /\ Len(j) <= MaxOps
    /\ r \subseteq Attempts
    /\ a \subseteq Attempts
    /\ x \subseteq [request : Requests, result : Attempts]
    /\ \A s \in DOMAIN j :
          /\ s < Len(j) => j[s].state \notin Unresolved
          /\ j[s].state = "in_doubt" => j[s].risk
          /\ j[s].state = "prepared" => ~ j[s].risk
          /\ j[s].state = "committed" => j[s].result \in a /\ j[s].result[1] = s
    /\ \A t \in r \cup a :
          /\ t[1] \in DOMAIN j
          /\ j[t[1]].state # "prepared"
          /\ ~ j[t[1]].risk => t[2] = j[t[1]].attempt
    /\ \A y \in x :
          /\ y.result[1] \in DOMAIN j
          /\ j[y.result[1]].state = "committed"
          /\ j[y.result[1]].request = y.request
          /\ j[y.result[1]].result = y.result

VolatileType ==
    /\ snapshot \in Inputs \cup {None}
    /\ diverged \in BOOLEAN
    /\ pc \in Steps
    /\ inputs \in Inputs \cup {None}
    /\ request \in Requests \cup {None}
    /\ op \in Attempts \cup {NoOp}
    /\ err \in Errors

ProcessInv ==
    /\ pc # "down" => inputs = snapshot
    /\ pc = "marked" =>
          Last > 0 /\ journal[Last].state = "in_doubt" /\ request \in Requests
    /\ pc \in {"prepared", "running", "succeeded", "errored"} =>
          /\ Last > 0
          /\ request \in Requests
          /\ op \in Attempts
          /\ op[1] = Last
          /\ op[2] = journal[Last].attempt
          /\ journal[Last].request = request
          /\ IF pc = "prepared"
             THEN journal[Last].state \in {"prepared", "in_doubt"}
             ELSE journal[Last].state = "in_flight"
    /\ pc = "marked" => journal[Last].request = request
    /\ pc = "succeeded" => op \in applied

IInv ==
    /\ VolatileType
    /\ JournalInv(journal, running, applied, answers)
    /\ ProcessInv

-----------------------------------------------------------------------------
(* Replacing one record of a journal *)

\* Replacing one record keeps the length and every other record.
LEMMA ReplaceRecord ==
    ASSUME NEW j \in Seq(OperationRecord), NEW s \in DOMAIN j,
           NEW rec \in OperationRecord
    PROVE  /\ [j EXCEPT ![s] = rec] \in Seq(OperationRecord)
           /\ Len([j EXCEPT ![s] = rec]) = Len(j)
           /\ DOMAIN [j EXCEPT ![s] = rec] = DOMAIN j
           /\ [j EXCEPT ![s] = rec][s] = rec
           /\ \A t \in DOMAIN j : t # s => [j EXCEPT ![s] = rec][t] = j[t]
OBVIOUS

\* The three records that the code writes over an existing one.
LEMMA Rewrites ==
    ASSUME NEW rec \in OperationRecord
    PROVE  /\ \A state \in OperationState, result \in Attempts \cup {NoOp} :
                [rec EXCEPT !.state = state, !.result = result]
                  \in OperationRecord
           /\ [rec EXCEPT !.state = "in_doubt", !.risk = TRUE]
                \in OperationRecord
           /\ rec.attempt < MaxAttempts =>
                \A risk \in BOOLEAN :
                   [rec EXCEPT !.attempt = @ + 1, !.risk = risk]
                     \in OperationRecord
<1>1. ASSUME NEW state \in OperationState, NEW result \in Attempts \cup {NoOp}
      PROVE  [rec EXCEPT !.state = state, !.result = result]
               \in OperationRecord
  BY DEF OperationRecord
<1>2. [rec EXCEPT !.state = "in_doubt", !.risk = TRUE] \in OperationRecord
  BY DEF OperationRecord, OperationState
<1>3. ASSUME rec.attempt < MaxAttempts, NEW risk \in BOOLEAN
      PROVE  [rec EXCEPT !.attempt = @ + 1, !.risk = risk] \in OperationRecord
  <2>1. rec.attempt + 1 \in 1..MaxAttempts
    BY <1>3, BoundsAssumption DEF OperationRecord
  <2> DEFINE n == rec.attempt + 1
  <2> HIDE DEF n
  <2>2. [rec EXCEPT !.attempt = n, !.risk = risk] \in OperationRecord
    BY <2>1 DEF OperationRecord, n
  <2> QED
    BY <2>2 DEF n
<1> QED
  BY <1>1, <1>2, <1>3

\* An attempt number is bounded, so it is a number.
LEMMA AttemptIsNat ==
    ASSUME NEW rec \in OperationRecord
    PROVE  rec.attempt \in Nat
<1>1. rec.attempt \in 1..MaxAttempts
  BY DEF OperationRecord
<1> QED
  BY <1>1, BoundsAssumption

\* A restart that finds a dispatched call writes a sound journal: the tail is in
\* doubt and flagged, and nothing else changed.
LEMMA WrittenInDoubt ==
    ASSUME JournalInv(journal, running, applied, answers),
           TailState = "in_flight"
    PROVE  /\ JournalInv(InDoubt, running, applied, answers)
           /\ Len(InDoubt) = Last
           /\ DOMAIN InDoubt = DOMAIN journal
           /\ InDoubt[Last].state = "in_doubt"
           /\ InDoubt[Last].risk
           /\ InDoubt[Last].request = journal[Last].request
           /\ InDoubt[Last].attempt = journal[Last].attempt
           /\ \A t \in DOMAIN journal : t # Last => InDoubt[t] = journal[t]
<1>1. Last \in DOMAIN journal /\ journal \in Seq(OperationRecord)
      /\ journal[Last].state = "in_flight" /\ Last > 0
  BY DEF JournalInv, TailState, Last
<1> DEFINE rec == [journal[Last] EXCEPT !.state = "in_doubt", !.risk = TRUE]
<1>2. InDoubt = [journal EXCEPT ![Last] = rec]
  BY <1>1 DEF InDoubt
<1>4. journal[Last] \in OperationRecord
  BY <1>1
<1>3. rec \in OperationRecord
  BY <1>4, Rewrites
<1>5. /\ rec.state = "in_doubt" /\ rec.risk = TRUE
      /\ rec.request = journal[Last].request
      /\ rec.attempt = journal[Last].attempt
      /\ rec.result = journal[Last].result
  BY <1>4 DEF OperationRecord
<1> HIDE DEF rec
<1>6. /\ InDoubt \in Seq(OperationRecord) /\ Len(InDoubt) = Last
      /\ DOMAIN InDoubt = DOMAIN journal
      /\ InDoubt[Last] = rec
      /\ \A t \in DOMAIN journal : t # Last => InDoubt[t] = journal[t]
  BY <1>1, <1>2, <1>3, ReplaceRecord DEF Last
<1> QED
  BY <1>1, <1>5, <1>6 DEF JournalInv, Last

\* Another attempt at an unresolved call writes a sound journal: one attempt more,
\* with its state and its flag as they were.
LEMMA WrittenRetry ==
    ASSUME JournalInv(journal, running, applied, answers),
           TailState \in {"prepared", "in_doubt"},
           journal[Last].attempt < MaxAttempts
    PROVE  /\ JournalInv(Retried, running, applied, answers)
           /\ Len(Retried) = Last
           /\ DOMAIN Retried = DOMAIN journal
           /\ Retried[Last].state = journal[Last].state
           /\ Retried[Last].risk = journal[Last].risk
           /\ Retried[Last].request = journal[Last].request
           /\ \A t \in DOMAIN journal : t # Last => Retried[t] = journal[t]
           /\ Retried[Last].attempt = journal[Last].attempt + 1
           /\ <<Last, Retried[Last].attempt>> \in Attempts
<1>1. Last \in DOMAIN journal /\ journal \in Seq(OperationRecord)
      /\ journal[Last].state \in {"prepared", "in_doubt"} /\ Last > 0
  BY DEF JournalInv, TailState, Last
<1> DEFINE rec == [journal[Last] EXCEPT
                     !.attempt = @ + 1,
                     !.risk = (journal[Last].state = "in_doubt")]
<1>2. Retried = [journal EXCEPT ![Last] = rec]
  BY <1>1 DEF Retried
<1>3. journal[Last] \in OperationRecord
  BY <1>1
<1>4. rec \in OperationRecord
  BY <1>3, Rewrites
<1>5. /\ rec.state = journal[Last].state
      /\ rec.request = journal[Last].request
      /\ rec.result = journal[Last].result
      /\ rec.attempt = journal[Last].attempt + 1
      /\ journal[Last].attempt \in Nat
  BY <1>3, BoundsAssumption DEF OperationRecord
<1>9. rec.risk = (journal[Last].state = "in_doubt")
  BY <1>3 DEF OperationRecord
<1>10. /\ journal[Last].state = "in_doubt" => rec.risk
       /\ journal[Last].state = "prepared" => ~ rec.risk
  BY <1>9
<1>11. rec.risk = journal[Last].risk
  <2>1. /\ journal[Last].risk \in BOOLEAN
        /\ journal[Last].state = "in_doubt" => journal[Last].risk
        /\ journal[Last].state = "prepared" => ~ journal[Last].risk
    BY <1>1, <1>3 DEF JournalInv, OperationRecord
  <2> QED
    BY <1>1, <1>9, <2>1
<1> HIDE DEF rec
<1>6. /\ Retried \in Seq(OperationRecord) /\ Len(Retried) = Last
      /\ DOMAIN Retried = DOMAIN journal
      /\ Retried[Last] = rec
      /\ \A t \in DOMAIN journal : t # Last => Retried[t] = journal[t]
  BY <1>1, <1>2, <1>4, ReplaceRecord DEF Last
<1>7. JournalInv(Retried, running, applied, answers)
  <2>1. \A s \in DOMAIN Retried :
          /\ s < Last => Retried[s].state \notin Unresolved
          /\ Retried[s].state = "in_doubt" => Retried[s].risk
          /\ Retried[s].state = "prepared" => ~ Retried[s].risk
          /\ Retried[s].state = "committed" =>
                Retried[s].result \in applied /\ Retried[s].result[1] = s
    BY <1>1, <1>5, <1>6, <1>10 DEF JournalInv, Last
  <2>2. ASSUME NEW a \in running \cup applied
        PROVE  /\ a[1] \in DOMAIN Retried
               /\ Retried[a[1]].state # "prepared"
               /\ ~ Retried[a[1]].risk => a[2] = Retried[a[1]].attempt
    <3>1. /\ a[1] \in DOMAIN journal
          /\ journal[a[1]].state # "prepared"
          /\ ~ journal[a[1]].risk => a[2] = journal[a[1]].attempt
      BY DEF JournalInv
    <3>2. CASE a[1] = Last
      <4>1. journal[Last].state = "in_doubt"
        BY <1>1, <3>1, <3>2
      <4>2. rec.risk /\ rec.state # "prepared"
        BY <1>5, <1>10, <4>1
      <4> QED
        BY <1>1, <1>6, <3>2, <4>2
    <3>3. CASE a[1] # Last
      <4>1. Retried[a[1]] = journal[a[1]] /\ a[1] \in DOMAIN Retried
        BY <1>6, <3>1, <3>3
      <4> QED
        BY <3>1, <4>1, Zenon
    <3> QED
      BY <3>2, <3>3
  <2>3. \A y \in answers :
          /\ y.result[1] \in DOMAIN Retried
          /\ Retried[y.result[1]].state = "committed"
          /\ Retried[y.result[1]].request = y.request
          /\ Retried[y.result[1]].result = y.result
    BY <1>1, <1>6 DEF JournalInv
  <2> QED
    BY <1>6, <2>1, <2>2, <2>3 DEF JournalInv, Last
<1>8. Last \in 1..MaxOps /\ rec.attempt \in 1..MaxAttempts
  BY <1>1, <1>4, BoundsAssumption DEF JournalInv, OperationRecord, Last
<1> QED
  BY <1>5, <1>6, <1>7, <1>8, <1>11 DEF Attempts

\* A new call after a resolved one writes a sound journal, one record longer, whose
\* first attempt is new.
LEMMA WrittenNew ==
    ASSUME JournalInv(journal, running, applied, answers),
           TailState \notin Unresolved, Last < MaxOps,
           NEW q \in Requests
    PROVE  LET new == Append(journal, NewRecord(q))
           IN  /\ JournalInv(new, running, applied, answers)
               /\ Len(new) = Last + 1
               /\ new[Last + 1] = NewRecord(q)
               /\ \A s \in DOMAIN journal : s \in DOMAIN new /\ new[s] = journal[s]
               /\ <<Last + 1, 1>> \in Attempts
<1> DEFINE new == Append(journal, NewRecord(q))
<1>1. journal \in Seq(OperationRecord)
  BY DEF JournalInv
<1>2. NewRecord(q) \in OperationRecord
  BY BoundsAssumption DEF NewRecord, OperationRecord, OperationState
<1>3. /\ new \in Seq(OperationRecord) /\ Len(new) = Last + 1
      /\ new[Last + 1] = NewRecord(q)
      /\ \A s \in DOMAIN journal : s \in DOMAIN new /\ new[s] = journal[s]
      /\ \A s \in DOMAIN new : s = Last + 1 \/ s \in DOMAIN journal
      /\ Last \in Nat
  BY <1>1, <1>2 DEF Last
<1>4. NewRecord(q).state = "prepared" /\ NewRecord(q).risk = FALSE
  BY DEF NewRecord
<1>5. \A s \in DOMAIN journal : journal[s].state \notin Unresolved
  BY <1>1 DEF JournalInv, TailState, Last
<1>6. <<Last + 1, 1>> \in Attempts
  BY <1>3, BoundsAssumption DEF Attempts
<1> HIDE DEF new
<1>7. JournalInv(new, running, applied, answers)
  BY <1>1, <1>3, <1>4, <1>5, BoundsAssumption DEF JournalInv, Last
<1> QED
  BY <1>3, <1>6, <1>7 DEF new

\* A transition of the tail writes a sound journal, if what it commits is the
\* result of an attempt that took effect.
LEMMA WrittenTransition ==
    ASSUME JournalInv(journal, running, applied, answers),
           Last > 0, op[1] = Last, TailState \in Unresolved,
           NEW state \in {"in_flight", "committed", "failed"},
           state # "in_flight" => TailState # "prepared",
           NEW result \in Attempts \cup {NoOp},
           state = "committed" => result \in applied /\ result[1] = Last
    PROVE  LET new == Transition(state, result)
           IN  /\ JournalInv(new, running, applied, answers)
               /\ Len(new) = Last
               /\ DOMAIN new = DOMAIN journal
               /\ \A t \in DOMAIN journal : t # Last => new[t] = journal[t]
               /\ new[Last].state = state
               /\ new[Last].result = result
               /\ new[Last].request = journal[Last].request
               /\ new[Last].attempt = journal[Last].attempt
               /\ new[Last].risk = journal[Last].risk
<1> DEFINE new == Transition(state, result)
           rec == [journal[Last] EXCEPT !.state = state, !.result = result]
<1>1. /\ Last \in DOMAIN journal
      /\ journal \in Seq(OperationRecord)
      /\ journal[Last].state \in Unresolved
      /\ state # "in_flight" => journal[Last].state # "prepared"
  BY DEF JournalInv, TailState, Last
<1>2. new = [journal EXCEPT ![Last] = rec]
  BY <1>1 DEF Transition
<1>3. journal[Last] \in OperationRecord
  BY <1>1
<1>4. rec \in OperationRecord
  BY <1>3, Rewrites DEF OperationState
<1>5. /\ rec.state = state /\ rec.result = result
      /\ rec.request = journal[Last].request
      /\ rec.attempt = journal[Last].attempt
      /\ rec.risk = journal[Last].risk
  BY <1>3 DEF OperationRecord
<1> HIDE DEF rec
<1>7. /\ new \in Seq(OperationRecord) /\ Len(new) = Last
      /\ DOMAIN new = DOMAIN journal
      /\ new[Last] = rec
      /\ \A t \in DOMAIN journal : t # Last => new[t] = journal[t]
  BY <1>1, <1>2, <1>4, ReplaceRecord DEF Last
<1> HIDE DEF new
<1>8. \A s \in DOMAIN new :
        /\ s < Last => new[s].state \notin Unresolved
        /\ new[s].state = "in_doubt" => new[s].risk
        /\ new[s].state = "prepared" => ~ new[s].risk
        /\ new[s].state = "committed" =>
              new[s].result \in applied /\ new[s].result[1] = s
  BY <1>1, <1>5, <1>7 DEF JournalInv, Last
<1>9. ASSUME NEW a \in running \cup applied
      PROVE  /\ a[1] \in DOMAIN new
             /\ new[a[1]].state # "prepared"
             /\ ~ new[a[1]].risk => a[2] = new[a[1]].attempt
  BY <1>1, <1>5, <1>7 DEF JournalInv
<1>10. \A y \in answers :
        /\ y.result[1] \in DOMAIN new
        /\ new[y.result[1]].state = "committed"
        /\ new[y.result[1]].request = y.request
        /\ new[y.result[1]].result = y.result
  BY <1>1, <1>7 DEF JournalInv, Unresolved
<1>11. JournalInv(new, running, applied, answers)
  BY <1>7, <1>8, <1>9, <1>10 DEF JournalInv, Last
<1> QED
  BY <1>5, <1>7, <1>11 DEF new

\* Starting an attempt, answering a caller, forgetting an attempt.
LEMMA WorldMoves ==
    ASSUME NEW j, JournalInv(j, running, applied, answers)
    PROVE  /\ \A a \in Attempts :
                /\ a[1] \in DOMAIN j
                /\ j[a[1]].state # "prepared"
                /\ ~ j[a[1]].risk => a[2] = j[a[1]].attempt
                => JournalInv(j, running \cup {a}, applied, answers)
           /\ \A q \in Requests, a \in Attempts :
                /\ a[1] \in DOMAIN j
                /\ j[a[1]].state = "committed"
                /\ j[a[1]].request = q
                /\ j[a[1]].result = a
                => JournalInv(j, running, applied,
                              answers \cup {[request |-> q, result |-> a]})
           /\ \A a \in running :
                /\ JournalInv(j, running \ {a}, applied, answers)
                /\ JournalInv(j, running, applied \cup {a}, answers)
<1>1. ASSUME NEW a \in Attempts, a[1] \in DOMAIN j, j[a[1]].state # "prepared",
             ~ j[a[1]].risk => a[2] = j[a[1]].attempt
      PROVE  JournalInv(j, running \cup {a}, applied, answers)
  BY <1>1 DEF JournalInv
<1>2. ASSUME NEW q \in Requests, NEW a \in Attempts, a[1] \in DOMAIN j,
             j[a[1]].state = "committed", j[a[1]].request = q,
             j[a[1]].result = a
      PROVE  JournalInv(j, running, applied,
                        answers \cup {[request |-> q, result |-> a]})
  BY <1>2 DEF JournalInv
<1>3. ASSUME NEW a \in running
      PROVE  JournalInv(j, running \ {a}, applied, answers)
  BY <1>3 DEF JournalInv
<1>4. ASSUME NEW a \in running
      PROVE  JournalInv(j, running, applied \cup {a}, answers)
  BY <1>4 DEF JournalInv
<1> QED
  BY <1>1, <1>2, <1>3, <1>4

-----------------------------------------------------------------------------
(* The invariant is inductive *)

\* A new run directory satisfies the invariant.
LEMMA InitIInv == Init => IInv
<1> SUFFICES ASSUME Init
             PROVE  IInv
  OBVIOUS
<1>1. VolatileType
  BY DEF Init, VolatileType, Steps, Errors
<1>2. /\ journal = <<>> /\ running = {} /\ applied = {} /\ answers = {}
      /\ MaxOps \in Nat
  BY BoundsAssumption DEF Init
<1>3. JournalInv(journal, running, applied, answers)
  BY <1>2 DEF JournalInv
<1>4. ProcessInv
  BY DEF Init, ProcessInv
<1> QED
  BY <1>1, <1>3, <1>4 DEF IInv

\* Every way to return to the caller.
LEMMA IdleKeepsIInv ==
    ASSUME IInv, pc # "down", NEW e \in Errors, Idle(e),
           JournalInv(journal', running', applied', answers'),
           snapshot' = snapshot, diverged' \in BOOLEAN
    PROVE  IInv'
BY DEF IInv, VolatileType, ProcessInv, Idle, Steps

\* A failed write keeps the invariant, whether or not it replaced the file: the
\* journal it would have written is as sound as the one before.
LEMMA WriteFailsKeepsIInv ==
    ASSUME IInv, pc # "down", NEW new, WriteFails(new),
           JournalInv(new, running, applied, answers)
    PROVE  IInv'
<1>1. JournalInv(journal', running', applied', answers')
  BY DEF WriteFails, IInv, world
<1>2. "write_failed" \in Errors /\ diverged \in BOOLEAN
  BY DEF Errors, IInv, VolatileType
<1> QED
  BY <1>1, <1>2, IdleKeepsIInv DEF WriteFails

\* Every step of the process, the agent and the operator keeps the invariant.
LEMMA NextIInv == IInv /\ [Next]_vars => IInv'
<1> SUFFICES ASSUME IInv, [Next]_vars
             PROVE  IInv'
  OBVIOUS
<1> USE DEF durable, process, world
<1>a. JournalInv(journal, running, applied, answers) /\ VolatileType
      /\ ProcessInv
  BY DEF IInv
<1>1. ASSUME NEW i \in Inputs, freezeExecutionSnapshot(i)
      PROVE  IInv'
  BY <1>1, <1>a DEF freezeExecutionSnapshot, IInv, VolatileType, ProcessInv,
                    Steps, Errors
<1>2. ASSUME NEW i \in Inputs, freezeRefused(i)
      PROVE  IInv'
  BY <1>2, <1>a DEF freezeRefused, IInv, VolatileType, ProcessInv, Steps,
                    Errors, Last
<1>3. ASSUME NEW q \in Requests, prepareMismatch(q)
      PROVE  IInv'
  <2>1. JournalInv(journal', running', applied', answers')
    BY <1>3, <1>a DEF prepareMismatch
  <2>2. "unresolved_operation_mismatch" \in Errors
    BY DEF Errors
  <2> QED
    BY <1>3, <2>1, <2>2, IdleKeepsIInv DEF prepareMismatch
<1>4. ASSUME NEW q \in Requests, prepareInDoubt(q)
      PROVE  IInv'
  <2>1. /\ JournalInv(InDoubt, running, applied, answers)
        /\ Len(InDoubt) = Last
        /\ InDoubt[Last].state = "in_doubt"
        /\ InDoubt[Last].request = journal[Last].request
    BY <1>4, <1>a, WrittenInDoubt DEF prepareInDoubt
  <2>2. CASE WriteFails(InDoubt)
    BY <1>4, <2>1, <2>2, WriteFailsKeepsIInv DEF prepareInDoubt
  <2>3. CASE journal' = InDoubt /\ pc' = "marked" /\ request' = q
             /\ UNCHANGED <<snapshot, diverged, inputs, op, err, world>>
    <3>1. Last' = Last /\ Last > 0 /\ journal[Last].request = q
      BY <1>4, <2>1, <2>3 DEF prepareInDoubt, TailIs, Last
    <3>2. journal'[Last'].state = "in_doubt" /\ journal'[Last'].request = q
      BY <2>1, <2>3, <3>1
    <3>3. inputs = snapshot
      BY <1>4, <1>a DEF prepareInDoubt, ProcessInv
    <3>4. ProcessInv'
      BY <2>3, <3>1, <3>2, <3>3 DEF ProcessInv
    <3>5. VolatileType'
      BY <1>a, <2>3 DEF VolatileType, Steps
    <3> QED
      BY <2>1, <2>3, <3>4, <3>5 DEF IInv
  <2> QED
    BY <1>4, <2>2, <2>3 DEF prepareInDoubt
<1>5. ASSUME NEW q \in Requests, prepareRetry(q)
      PROVE  IInv'
  <2>0. /\ TailState \in {"prepared", "in_doubt"}
        /\ Last > 0 /\ journal[Last].request = q
        /\ journal[Last].state = TailState
        /\ pc # "down" /\ inputs = snapshot
    BY <1>5, <1>a DEF prepareRetry, ProcessInv, TailState, TailIs
  <2>1. /\ JournalInv(Retried, running, applied, answers)
        /\ Len(Retried) = Last
        /\ Retried[Last].state = journal[Last].state
        /\ Retried[Last].request = journal[Last].request
        /\ <<Last, Retried[Last].attempt>> \in Attempts
    BY <1>5, <1>a, <2>0, WrittenRetry DEF prepareRetry
  <2>2. CASE WriteFails(Retried)
    BY <2>0, <2>1, <2>2, WriteFailsKeepsIInv
  <2>3. CASE /\ journal' = Retried /\ pc' = "prepared" /\ request' = q
             /\ op' = <<Last, Retried[Last].attempt>>
             /\ UNCHANGED <<snapshot, diverged, inputs, err, world>>
    <3>1. Last' = Last
      BY <2>1, <2>3 DEF Last
    <3>2. ProcessInv'
      BY <2>0, <2>1, <2>3, <3>1 DEF ProcessInv
    <3>3. VolatileType'
      BY <1>a, <2>1, <2>3 DEF VolatileType, Steps
    <3> QED
      BY <2>1, <2>3, <3>2, <3>3 DEF IInv
  <2> QED
    BY <1>5, <2>2, <2>3 DEF prepareRetry
<1>6. ASSUME NEW q \in Requests, prepareReplay(q)
      PROVE  IInv'
  <2>1. /\ Last \in DOMAIN journal /\ journal[Last].state = "committed"
        /\ journal[Last].request = q
    BY <1>6, <1>a DEF prepareReplay, TailState, TailIs, JournalInv, Last
  <2>2. /\ journal[Last].result \in Attempts
        /\ journal[Last].result[1] = Last
    BY <1>a, <2>1 DEF JournalInv
  <2>3. JournalInv(journal', running', applied', answers')
    BY <1>6, <1>a, <2>1, <2>2, WorldMoves DEF prepareReplay
  <2>4. "none" \in Errors
    BY DEF Errors
  <2> QED
    BY <1>6, <1>a, <2>3, <2>4, IdleKeepsIInv DEF prepareReplay, VolatileType
<1>7. ASSUME NEW q \in Requests, prepareNew(q)
      PROVE  IInv'
  <2> DEFINE new == Append(journal, NewRecord(q))
  <2>1. /\ JournalInv(new, running, applied, answers)
        /\ Len(new) = Last + 1 /\ new[Last + 1] = NewRecord(q)
        /\ <<Last + 1, 1>> \in Attempts
        /\ pc # "down" /\ Last \in Nat /\ inputs = snapshot
    <3>1. TailState \notin Unresolved /\ pc # "down"
      BY <1>7 DEF prepareNew, Unresolved
    <3>2. Last \in Nat /\ inputs = snapshot
      BY <1>a, <3>1 DEF JournalInv, Last, ProcessInv
    <3> QED
      BY <1>7, <1>a, <3>1, <3>2, WrittenNew DEF prepareNew
  <2> HIDE DEF new
  <2>2. CASE WriteFails(new)
    BY <2>1, <2>2, WriteFailsKeepsIInv
  <2>3. CASE /\ journal' = new /\ pc' = "prepared" /\ request' = q
             /\ op' = <<Last + 1, 1>>
             /\ UNCHANGED <<snapshot, diverged, inputs, err, world>>
    <3>1. Last' = Last + 1
      BY <2>1, <2>3 DEF Last
    <3>2. ProcessInv'
      BY <2>1, <2>3, <3>1 DEF ProcessInv, NewRecord
    <3>3. VolatileType'
      BY <1>a, <2>1, <2>3 DEF VolatileType, Steps
    <3> QED
      BY <2>1, <2>3, <3>2, <3>3 DEF IInv
  <2> QED
    BY <1>7, <2>2, <2>3 DEF prepareNew, new
<1>8. ASSUME NEW e \in PreDispatchErrors, failBeforeDispatch(e)
      PROVE  IInv'
  BY <1>8, <1>a, IdleKeepsIInv
     DEF failBeforeDispatch, Errors, VolatileType
<1>b. pc \in {"prepared", "running", "succeeded", "errored"} =>
        /\ Last > 0 /\ op[1] = Last /\ op \in Attempts /\ request \in Requests
        /\ op[2] = journal[Last].attempt
        /\ journal[Last].request = request
        /\ journal[Last].state = TailState
        /\ inputs = snapshot
        /\ pc = "prepared" => TailState \in {"prepared", "in_doubt"}
        /\ pc # "prepared" => TailState = "in_flight"
  BY <1>a DEF ProcessInv, TailState
<1>c. Last \in Nat /\ (Last > 0 => Last \in DOMAIN journal)
      /\ (Last > 0 => journal[Last] \in OperationRecord)
  BY <1>a DEF JournalInv, Last
<1>9. ASSUME dispatch
      PROVE  IInv'
  <2> DEFINE res == journal[op[1]].result
             new == Transition("in_flight", res)
  <2>0. /\ Last > 0 /\ op[1] = Last
        /\ TailState \in Unresolved
    BY <1>9, <1>b DEF dispatch, Unresolved
  <2>1. res \in Attempts \cup {NoOp}
    BY <1>c, <2>0 DEF OperationRecord
  <2> HIDE DEF res
  <2>2. /\ JournalInv(new, running, applied, answers)
        /\ Len(new) = Last /\ DOMAIN new = DOMAIN journal
        /\ new[Last].state = "in_flight"
        /\ new[Last].request = journal[Last].request
        /\ new[Last].attempt = journal[Last].attempt
    BY <1>a, <2>0, <2>1, WrittenTransition
  <2> HIDE DEF new
  <2>3. CASE WriteFails(new)
    BY <1>9, <2>2, <2>3, WriteFailsKeepsIInv DEF dispatch
  <2>4. CASE /\ journal' = new /\ running' = running \cup {op}
             /\ pc' = "running"
             /\ UNCHANGED <<snapshot, diverged, inputs, request, op, err,
                            applied, answers>>
    <3>1. Last' = Last
      BY <2>2, <2>4 DEF Last
    <3>2. JournalInv(new, running \cup {op}, applied, answers)
      BY <1>9, <1>b, <1>c, <2>2, WorldMoves DEF dispatch
    <3>3. ProcessInv'
      BY <1>9, <1>b, <2>2, <2>4, <3>1 DEF ProcessInv, dispatch
    <3>4. VolatileType'
      BY <1>a, <2>4 DEF VolatileType, Steps
    <3> QED
      BY <2>4, <3>2, <3>3, <3>4 DEF IInv
  <2> QED
    BY <1>9, <2>3, <2>4 DEF dispatch, new, res
<1>10. ASSUME NEW a \in running, agentActs(a)
       PROVE  IInv'
  <2>1. JournalInv(journal', running', applied', answers')
    BY <1>10, <1>a, WorldMoves DEF agentActs
  <2> QED
    BY <1>10, <1>a, <2>1
       DEF agentActs, IInv, ProcessInv, VolatileType, Last
<1>11. ASSUME agentSucceeds
       PROVE  IInv'
  <2>1. JournalInv(journal', running', applied', answers')
    BY <1>11, <1>a DEF agentSucceeds, JournalInv
  <2> QED
    BY <1>11, <1>a, <2>1
       DEF agentSucceeds, IInv, ProcessInv, VolatileType, Steps, Last
<1>12. ASSUME agentFails
       PROVE  IInv'
  <2>1. JournalInv(journal', running', applied', answers')
    BY <1>12, <1>a DEF agentFails, JournalInv
  <2> QED
    BY <1>12, <1>a, <2>1
       DEF agentFails, IInv, ProcessInv, VolatileType, Steps, Last
<1>d. ASSUME NEW a \in applied, a[1] = Last, Last > 0, TailState \in Unresolved,
             TailState # "prepared", op[1] = Last, request \in Requests,
             journal[Last].request = request
      PROVE  LET new == Transition("committed", a)
             IN  /\ JournalInv(new, running, applied, answers)
                 /\ JournalInv(new, running, applied,
                      answers \cup {[request |-> request, result |-> a]})
  <2> DEFINE new == Transition("committed", a)
  <2>1. a \in Attempts
    BY <1>a DEF JournalInv
  <2>2. /\ JournalInv(new, running, applied, answers)
        /\ DOMAIN new = DOMAIN journal
        /\ new[Last].state = "committed"
        /\ new[Last].result = a
        /\ new[Last].request = request
    BY <1>d, <1>a, <2>1, WrittenTransition
  <2> HIDE DEF new
  <2>3. JournalInv(new, running, applied,
                   answers \cup {[request |-> request, result |-> a]})
    BY <1>c, <1>d, <2>1, <2>2, WorldMoves
  <2> QED
    BY <2>2, <2>3 DEF new
<1>13. ASSUME commitOperation
       PROVE  IInv'
  <2>1. op \in applied /\ TailState = "in_flight" /\ op[1] = Last
    BY <1>13, <1>a, <1>b DEF commitOperation, ProcessInv
  <2> DEFINE new == Transition("committed", op)
  <2>2. /\ JournalInv(new, running, applied, answers)
        /\ JournalInv(new, running, applied,
              answers \cup {[request |-> request, result |-> op]})
    BY <1>13, <1>b, <1>d, <2>1 DEF commitOperation, Unresolved
  <2> HIDE DEF new
  <2>3. CASE WriteFails(new)
    BY <1>13, <2>2, <2>3, WriteFailsKeepsIInv DEF commitOperation
  <2>4. CASE /\ journal' = new
             /\ answers' = answers \cup {[request |-> request, result |-> op]}
             /\ Idle("none")
             /\ UNCHANGED <<snapshot, diverged, running, applied>>
    BY <1>13, <1>a, <2>2, <2>4, IdleKeepsIInv
       DEF commitOperation, Errors, VolatileType
  <2> QED
    BY <1>13, <2>3, <2>4 DEF commitOperation, new
<1>14. ASSUME failOperation
       PROVE  IInv'
  <2> DEFINE new == Transition("failed", journal[op[1]].result)
  <2>1. journal[op[1]].result \in Attempts \cup {NoOp}
    BY <1>14, <1>b, <1>c DEF failOperation, OperationRecord
  <2>2. JournalInv(new, running, applied, answers)
    BY <1>14, <1>a, <1>b, <2>1, WrittenTransition DEF failOperation, Unresolved
  <2> HIDE DEF new
  <2>3. CASE WriteFails(new)
    BY <1>14, <2>2, <2>3, WriteFailsKeepsIInv DEF failOperation
  <2>4. CASE /\ journal' = new /\ Idle("invocation_returned_error")
             /\ UNCHANGED <<snapshot, diverged, world>>
    BY <1>14, <1>a, <2>2, <2>4, IdleKeepsIInv
       DEF failOperation, Errors, VolatileType
  <2> QED
    BY <1>14, <2>3, <2>4 DEF failOperation, new
<1>15. ASSUME reconcileOperation
       PROVE  IInv'
  <2>1. pc = "prepared" /\ op[1] = Last /\ TailState = "in_doubt"
    BY <1>15, <1>b DEF reconcileOperation
  <2>2. PICK a \in applied :
           /\ a[1] = op[1]
           /\ \/ /\ journal' = Transition("committed", a)
                 /\ answers' = answers \cup
                                 {[request |-> request, result |-> a]}
                 /\ Idle("none")
                 /\ UNCHANGED <<snapshot, diverged, running, applied>>
              \/ WriteFails(Transition("committed", a))
    BY <1>15 DEF reconcileOperation
  <2> DEFINE new == Transition("committed", a)
  <2>3. /\ JournalInv(new, running, applied, answers)
        /\ JournalInv(new, running, applied,
              answers \cup {[request |-> request, result |-> a]})
    BY <1>b, <1>d, <2>1, <2>2 DEF Unresolved
  <2> HIDE DEF new
  <2>4. CASE WriteFails(new)
    BY <2>1, <2>3, <2>4, WriteFailsKeepsIInv
  <2>5. CASE /\ journal' = new
             /\ answers' = answers \cup {[request |-> request, result |-> a]}
             /\ Idle("none")
             /\ UNCHANGED <<snapshot, diverged, running, applied>>
    BY <1>a, <2>1, <2>3, <2>5, IdleKeepsIInv DEF Errors, VolatileType
  <2> QED
    BY <2>2, <2>4, <2>5 DEF new
<1>16. ASSUME crash
       PROVE  IInv'
  BY <1>16, <1>a DEF crash, IInv, ProcessInv, VolatileType, Steps, Errors
<1>17. ASSUME UNCHANGED vars
       PROVE  IInv'
  BY <1>17, <1>a DEF vars, IInv, ProcessInv, VolatileType, Last
<1> QED
  BY <1>1, <1>2, <1>3, <1>4, <1>5, <1>6, <1>7, <1>8, <1>9, <1>10, <1>11,
     <1>12, <1>13, <1>14, <1>15, <1>16, <1>17 DEF Next

-----------------------------------------------------------------------------
(* Theorems *)

\* The invariant implies every safety invariant that TLC checks.
LEMMA IInvImplies ==
    IInv => /\ TypeOK
            /\ OnlyTailUnresolved
            /\ EffectsAreJournaled
            /\ DuplicatesAreFlagged
            /\ AnswersAreDurable
            /\ CallMatchesJournal
<1> SUFFICES ASSUME IInv
             PROVE  /\ TypeOK
                    /\ OnlyTailUnresolved
                    /\ EffectsAreJournaled
                    /\ DuplicatesAreFlagged
                    /\ AnswersAreDurable
                    /\ CallMatchesJournal
  OBVIOUS
<1>a. JournalInv(journal, running, applied, answers) /\ VolatileType
      /\ ProcessInv
  BY DEF IInv
<1>1. TypeOK
  BY <1>a DEF TypeOK, JournalInv, VolatileType, Last
<1>2. OnlyTailUnresolved
  BY <1>a DEF OnlyTailUnresolved, JournalInv, Last
<1>3. EffectsAreJournaled
  BY <1>a DEF EffectsAreJournaled, JournalInv
<1>4. DuplicatesAreFlagged
  <2> SUFFICES ASSUME NEW a \in applied, NEW b \in applied, a[1] = b[1],
                      ~ journal[a[1]].risk
               PROVE  a = b
    BY DEF DuplicatesAreFlagged
  <2>1. a[2] = b[2]
    BY <1>a DEF JournalInv
  <2> QED
    BY <1>a, <2>1 DEF JournalInv, Attempts
<1>5. AnswersAreDurable
  BY <1>a DEF AnswersAreDurable, JournalInv
<1>6. CallMatchesJournal
  BY <1>a DEF CallMatchesJournal, ProcessInv
<1> QED
  BY <1>1, <1>2, <1>3, <1>4, <1>5, <1>6

\* The strengthened invariant holds of every behaviour of runAdapter.
THEOREM Invariance == Spec => []IInv
<1> QED
  BY InitIInv, NextIInv, PTL DEF Spec

\* Every variable of the journal, the process and the world keeps its type.
THEOREM TypeCorrect == Spec => []TypeOK
<1>1. IInv => TypeOK
  BY IInvImplies
<1> QED
  BY <1>1, Invariance, PTL

\* prepareOperation never steps over an unresolved operation.
THEOREM TailOnly == Spec => []OnlyTailUnresolved
<1>1. IInv => OnlyTailUnresolved
  BY IInvImplies
<1> QED
  BY <1>1, Invariance, PTL

\* No agent takes effect under a record that is still "prepared".
THEOREM WriteAhead == Spec => []EffectsAreJournaled
<1>1. IInv => EffectsAreJournaled
  BY IInvImplies
<1> QED
  BY <1>1, Invariance, PTL

\* A duplicated effect always carries duplicate_effect_risk.
THEOREM NoSilentDuplicate == Spec => []DuplicatesAreFlagged
<1>1. IInv => DuplicatesAreFlagged
  BY IInvImplies
<1> QED
  BY <1>1, Invariance, PTL

\* A caller only ever gets durably committed results of its own request.
THEOREM DurableAnswers == Spec => []AnswersAreDurable
<1>1. IInv => AnswersAreDurable
  BY IInvImplies
<1> QED
  BY <1>1, Invariance, PTL

\* The agent call in progress is the one the tail of the journal describes.
THEOREM CallIsTail == Spec => []CallMatchesJournal
<1>1. IInv => CallMatchesJournal
  BY IInvImplies
<1> QED
  BY <1>1, Invariance, PTL

-----------------------------------------------------------------------------
(* What one step does to the journal and to the applied effects *)

Rewritten(k) ==
    /\ Last > 0
    /\ TailState \in Unresolved
    /\ DOMAIN k = DOMAIN journal
    /\ k[Last].request = journal[Last].request
    /\ k[Last].attempt >= journal[Last].attempt
    /\ journal[Last].risk => k[Last].risk
    /\ \A t \in DOMAIN journal : t # Last => k[t] = journal[t]

Untouched == journal' = journal /\ applied' = applied

Acts == \E a \in running \ applied :
            applied' = applied \cup {a} /\ journal' = journal

Flags == /\ Rewritten(journal')
         /\ applied' = applied
         /\ journal'[Last].state = "in_doubt"
         /\ journal'[Last].risk

Repeats == /\ Rewritten(journal')
           /\ applied' = applied
           /\ journal'[Last].state \in Unresolved
           /\ journal'[Last].risk = journal[Last].risk

Resolves == /\ Rewritten(journal')
            /\ applied' = applied
            /\ journal'[Last].state \in {"committed", "failed"}
            /\ journal'[Last].state = "committed" =>
                  \E a \in applied : a[1] = Last
            /\ journal'[Last].risk = journal[Last].risk

Opens == /\ TailState \notin Unresolved
         /\ applied' = applied
         /\ \E q \in Requests : journal' = Append(journal, NewRecord(q))

\* Every step does one of six things to the journal, the shapes that the history
\* property and the refinement are about.
LEMMA StepForms ==
    IInv /\ [Next]_vars =>
        Untouched \/ Acts \/ Flags \/ Repeats \/ Resolves \/ Opens
<1> SUFFICES ASSUME IInv, [Next]_vars
             PROVE  Untouched \/ Acts \/ Flags \/ Repeats \/ Resolves \/ Opens
  OBVIOUS
<1> USE DEF durable, process, world
<1>a. JournalInv(journal, running, applied, answers) /\ VolatileType
      /\ ProcessInv
  BY DEF IInv
<1>b. /\ Last \in Nat
      /\ Last > 0 => Last \in DOMAIN journal /\ journal[Last] \in OperationRecord
                     /\ journal[Last].attempt \in Nat
  BY <1>a, AttemptIsNat DEF JournalInv, Last
<1>c. pc \in {"prepared", "running", "succeeded", "errored"} =>
        /\ Last > 0 /\ op[1] = Last
        /\ pc = "prepared" => TailState \in {"prepared", "in_doubt"}
        /\ pc # "prepared" => TailState = "in_flight"
  BY <1>a DEF ProcessInv, TailState
<1>1. ASSUME NEW q \in Requests, prepareInDoubt(q)
      PROVE  Untouched \/ Flags
  <2>1. Rewritten(InDoubt) /\ InDoubt[Last].state = "in_doubt"
        /\ InDoubt[Last].risk
    BY <1>1, <1>a, <1>b, WrittenInDoubt
       DEF prepareInDoubt, Rewritten, TailIs, Unresolved
  <2>2. journal' \in {journal, InDoubt} /\ applied' = applied
    BY <1>1 DEF prepareInDoubt, WriteFails
  <2> QED
    BY <2>1, <2>2 DEF Untouched, Flags
<1>2. ASSUME NEW q \in Requests, prepareRetry(q)
      PROVE  Untouched \/ Repeats
  <2>1. TailState \in {"prepared", "in_doubt"} /\ Last > 0
        /\ journal[Last].state = TailState
    BY <1>2, <1>a DEF prepareRetry, ProcessInv, TailState, TailIs
  <2>2. Rewritten(Retried) /\ Retried[Last].state \in Unresolved
        /\ Retried[Last].risk = journal[Last].risk
    BY <1>2, <1>a, <1>b, <2>1, WrittenRetry
       DEF prepareRetry, Rewritten, Unresolved
  <2>3. journal' \in {journal, Retried} /\ applied' = applied
    BY <1>2 DEF prepareRetry, WriteFails
  <2> QED
    BY <2>2, <2>3 DEF Untouched, Repeats
<1>3. ASSUME NEW q \in Requests, prepareNew(q)
      PROVE  Untouched \/ Opens
  <2>1. TailState \notin Unresolved
    BY <1>3 DEF prepareNew, Unresolved
  <2>2. journal' \in {journal, Append(journal, NewRecord(q))}
        /\ applied' = applied
    BY <1>3 DEF prepareNew, WriteFails
  <2> QED
    BY <2>1, <2>2 DEF Untouched, Opens
<1>4. ASSUME dispatch
      PROVE  Untouched \/ Repeats
  <2> DEFINE res == journal[op[1]].result
             new == Transition("in_flight", res)
  <2>0. Last > 0 /\ op[1] = Last /\ TailState \in Unresolved
    BY <1>4, <1>c DEF dispatch, Unresolved
  <2>1. res \in Attempts \cup {NoOp}
    BY <1>b, <2>0 DEF OperationRecord
  <2>2. journal' \in {journal, new} /\ applied' = applied
    BY <1>4 DEF dispatch, WriteFails
  <2> HIDE DEF res
  <2>3. Rewritten(new) /\ new[Last].state \in Unresolved
        /\ new[Last].risk = journal[Last].risk
    BY <1>a, <1>b, <2>0, <2>1, WrittenTransition DEF Rewritten, Unresolved
  <2> QED
    BY <2>2, <2>3 DEF Untouched, Repeats
<1>5. ASSUME NEW a \in applied, a[1] = Last, Last > 0, op[1] = Last,
             TailState \in Unresolved, TailState # "prepared",
             journal' \in {journal, Transition("committed", a)},
             applied' = applied
      PROVE  Untouched \/ Resolves
  <2> DEFINE new == Transition("committed", a)
  <2>1. a \in Attempts
    BY <1>a DEF JournalInv
  <2>2. Rewritten(new) /\ new[Last].state = "committed"
        /\ new[Last].risk = journal[Last].risk
    BY <1>a, <1>b, <1>5, <2>1, WrittenTransition DEF Rewritten
  <2> QED
    BY <1>5, <2>2 DEF Untouched, Resolves
<1>6. ASSUME commitOperation
      PROVE  Untouched \/ Resolves
  <2>1. /\ op \in applied /\ op[1] = Last /\ Last > 0
        /\ TailState = "in_flight"
    BY <1>6, <1>a, <1>c DEF commitOperation, ProcessInv
  <2>2. journal' \in {journal, Transition("committed", op)}
        /\ applied' = applied
    BY <1>6 DEF commitOperation, WriteFails
  <2> QED
    BY <1>5, <2>1, <2>2 DEF Unresolved
<1>7. ASSUME failOperation
      PROVE  Untouched \/ Resolves
  <2> DEFINE res == journal[op[1]].result
             new == Transition("failed", res)
  <2>0. Last > 0 /\ op[1] = Last /\ TailState = "in_flight"
    BY <1>7, <1>c DEF failOperation
  <2>1. res \in Attempts \cup {NoOp}
    BY <1>b, <2>0 DEF OperationRecord
  <2>2. journal' \in {journal, new} /\ applied' = applied
    BY <1>7 DEF failOperation, WriteFails
  <2> HIDE DEF res
  <2>3. Rewritten(new) /\ new[Last].state = "failed"
        /\ new[Last].risk = journal[Last].risk
    BY <1>a, <1>b, <2>0, <2>1, WrittenTransition DEF Rewritten, Unresolved
  <2> QED
    BY <2>2, <2>3 DEF Untouched, Resolves
<1>8. ASSUME reconcileOperation
      PROVE  Untouched \/ Resolves
  <2>1. op[1] = Last /\ Last > 0 /\ TailState = "in_doubt"
    BY <1>8, <1>c DEF reconcileOperation, TailState
  <2>2. PICK a \in applied :
           /\ a[1] = op[1]
           /\ journal' \in {journal, Transition("committed", a)}
           /\ applied' = applied
    BY <1>8 DEF reconcileOperation, WriteFails
  <2> QED
    BY <1>5, <2>1, <2>2 DEF Unresolved
<1>9. ASSUME NEW a \in running, agentActs(a)
      PROVE  Acts
  BY <1>9 DEF agentActs, Acts
<1>10. ASSUME \/ \E i \in Inputs : freezeExecutionSnapshot(i) \/ freezeRefused(i)
              \/ \E q \in Requests : prepareMismatch(q) \/ prepareReplay(q)
              \/ \E e \in PreDispatchErrors : failBeforeDispatch(e)
              \/ agentSucceeds \/ agentFails \/ crash
              \/ UNCHANGED vars
       PROVE  Untouched
  BY <1>10 DEF freezeExecutionSnapshot, freezeRefused, prepareMismatch,
               prepareReplay, failBeforeDispatch, agentSucceeds, agentFails,
               crash, vars, Untouched
<1> QED
  BY <1>1, <1>2, <1>3, <1>4, <1>6, <1>7, <1>8, <1>9, <1>10 DEF Next

-----------------------------------------------------------------------------
(* History is never rewritten *)

\* Resolved records are never rewritten, and requests, attempts and risk flags
\* never regress, over any sequence of calls, retries, failures and restarts.
THEOREM Monotone == Spec => JournalIsMonotone
<1> DEFINE Grows ==
      \A s \in DOMAIN journal :
          /\ s \in DOMAIN journal'
          /\ journal'[s].request = journal[s].request
          /\ journal'[s].attempt >= journal[s].attempt
          /\ journal[s].risk => journal'[s].risk
          /\ journal[s].state \notin Unresolved => journal'[s] = journal[s]
<1>1. IInv /\ [Next]_vars => Grows
  <2> SUFFICES ASSUME IInv, [Next]_vars
               PROVE  Grows
    OBVIOUS
  <2>a. journal \in Seq(OperationRecord)
        /\ \A s \in DOMAIN journal : journal[s].attempt \in Nat
    BY AttemptIsNat DEF IInv, JournalInv
  <2>b. Last > 0 => journal[Last].state = TailState
    BY DEF TailState
  <2>1. CASE Rewritten(journal')
    BY <2>a, <2>b, <2>1 DEF Rewritten
  <2>2. CASE journal' = journal
    BY <2>a, <2>2
  <2>3. CASE Opens
    <3>1. PICK q \in Requests : journal' = Append(journal, NewRecord(q))
      BY <2>3 DEF Opens
    <3>2. NewRecord(q) \in OperationRecord
      BY BoundsAssumption DEF NewRecord, OperationRecord, OperationState
    <3>3. \A s \in DOMAIN journal :
             s \in DOMAIN journal' /\ journal'[s] = journal[s]
      BY <2>a, <3>1, <3>2
    <3> QED
      BY <2>a, <3>3
  <2> QED
    BY <2>1, <2>2, <2>3, StepForms
       DEF Untouched, Acts, Flags, Repeats, Resolves
<1>2. Spec => [][Grows]_vars
  BY <1>1, Invariance, PTL DEF Spec
<1> QED
  BY <1>2 DEF JournalIsMonotone

-----------------------------------------------------------------------------
(* The journal implements AtLeastOnce *)

\* The abstract log has one entry per record of the journal.
LEMMA LogShape ==
    ASSUME journal \in Seq(OperationRecord)
    PROVE  /\ DOMAIN Log = DOMAIN journal
           /\ Log \in Seq([request : Requests, status : {"open", "ok", "failed"},
                           flagged : BOOLEAN])
           /\ Len(Log) = Last
           /\ \A s \in DOMAIN journal :
                 /\ Log[s] = Summary(journal[s])
                 /\ Log[s].request = journal[s].request
                 /\ Log[s].flagged = journal[s].risk
                 /\ (Log[s].status = "open") <=> journal[s].state \in Unresolved
<1>1. \A rec \in OperationRecord :
        /\ Summary(rec) \in [request : Requests,
                            status : {"open", "ok", "failed"},
                            flagged : BOOLEAN]
        /\ Summary(rec).request = rec.request
        /\ Summary(rec).flagged = rec.risk
        /\ (Summary(rec).status = "open") <=> rec.state \in Unresolved
  BY DEF Summary, OperationRecord, OperationState, Unresolved
<1>2. DOMAIN Log = 1..Last /\ DOMAIN journal = 1..Last /\ Last \in Nat
  BY DEF Log, Last
<1>3. \A s \in 1..Last : Log[s] = Summary(journal[s])
  BY <1>2 DEF Log
<1> QED
  BY <1>1, <1>2, <1>3 DEF Log, Last

\* A step that rewrites the tail changes one entry of the log.
LEMMA RewriteMaps ==
    ASSUME journal \in Seq(OperationRecord), Rewritten(journal')
    PROVE  /\ Last \in DOMAIN Log
           /\ Log[Last].status = "open"
           /\ Log' = [Log EXCEPT ![Last] = Summary(journal'[Last])]
<1>1. Last \in DOMAIN journal /\ journal[Last].state \in Unresolved
  BY DEF Rewritten, TailState, Last
<1>2. DOMAIN Log' = DOMAIN Log
  BY DEF Log, Rewritten
<1>3. ASSUME NEW s \in DOMAIN Log
      PROVE  Log'[s] = [Log EXCEPT ![Last] = Summary(journal'[Last])][s]
  BY <1>1 DEF Log, Rewritten
<1>4. Log' = [Log EXCEPT ![Last] = Summary(journal'[Last])]
  BY <1>2, <1>3 DEF Log
<1> QED
  BY <1>1, <1>4, LogShape

\* Every step of the journal is a step of AtLeastOnce, or changes nothing there.
LEMMA StepImplements ==
    IInv /\ [Next]_vars => [Promise!Next]_(Promise!vars)
<1> SUFFICES ASSUME IInv, [Next]_vars
             PROVE  [Promise!Next]_(Promise!vars)
  OBVIOUS
<1>a. /\ journal \in Seq(OperationRecord)
      /\ JournalInv(journal, running, applied, answers)
  BY DEF IInv, JournalInv
<1> DEFINE old == journal[Last]
           now == journal'[Last]
<1>1. CASE Untouched
  <2>1. Log' = Log
    BY <1>1 DEF Untouched, Log
  <2> QED
    BY <1>1, <2>1 DEF Untouched, Promise!vars
<1>2. CASE Acts
  <2>1. PICK a \in running \ applied :
           applied' = applied \cup {a} /\ journal' = journal
    BY <1>2 DEF Acts
  <2>2. a[1] \in DOMAIN journal /\ a[2] \in 1..MaxAttempts
        /\ a = <<a[1], a[2]>>
    BY <1>a, <2>1 DEF JournalInv, Attempts
  <2>3. Log' = Log
    BY <2>1 DEF Log
  <2>4. ASSUME ~ journal[a[1]].risk, NEW b \in applied, b[1] = a[1]
        PROVE  FALSE
    <3>1. b[2] = a[2] /\ b = <<b[1], b[2]>>
      BY <1>a, <2>1, <2>4 DEF JournalInv, Attempts
    <3> QED
      BY <2>1, <2>2, <2>4, <3>1
  <2>5. Promise!Apply(a[1], a[2])
    BY <1>a, <2>1, <2>2, <2>3, <2>4, LogShape DEF Promise!Apply
  <2> QED
    BY <1>a, <2>2, <2>5, LogShape DEF Promise!Next
<1>b. journal' \in Seq(OperationRecord)
  BY NextIInv DEF IInv, JournalInv
<1>c. ASSUME Rewritten(journal')
      PROVE  /\ now \in OperationRecord /\ old \in OperationRecord
             /\ now.request = old.request
             /\ Log[Last] = [request |-> old.request, status |-> "open",
                            flagged |-> old.risk]
  <2>1. /\ Last \in DOMAIN journal /\ DOMAIN journal' = DOMAIN journal
        /\ old.state \in Unresolved
        /\ now.request = old.request
    BY <1>c DEF Rewritten, TailState, Last
  <2>2. Log[Last] = Summary(old)
    BY <1>a, <2>1, LogShape
  <2> QED
    BY <1>a, <1>b, <2>1, <2>2 DEF Summary, Unresolved
<1>3. CASE Flags
  <2>1. /\ Rewritten(journal') /\ now.state = "in_doubt" /\ now.risk
        /\ applied' = applied
    BY <1>3 DEF Flags
  <2>2. /\ Last \in DOMAIN Log /\ Log[Last].status = "open"
        /\ Log' = [Log EXCEPT ![Last] = Summary(now)]
    BY <1>a, <2>1, RewriteMaps
  <2>3. now.risk = TRUE
    BY <1>c, <2>1 DEF OperationRecord
  <2>4. Summary(now) = [request |-> old.request, status |-> "open",
                        flagged |-> TRUE]
    BY <1>c, <2>1, <2>3 DEF Summary
  <2>5. Summary(now) = [Log[Last] EXCEPT !.flagged = TRUE]
    <3>1. \A x, b, v : [[request |-> x, status |-> "open", flagged |-> b]
                         EXCEPT !.flagged = v]
                      = [request |-> x, status |-> "open", flagged |-> v]
      OBVIOUS
    <3>2. Log[Last] = [request |-> old.request, status |-> "open",
                       flagged |-> old.risk]
      BY <1>c, <2>1
    <3> HIDE DEF old, now
    <3>3. [[request |-> old.request, status |-> "open", flagged |-> old.risk]
             EXCEPT !.flagged = TRUE]
            = [request |-> old.request, status |-> "open", flagged |-> TRUE]
      BY <3>1
    <3> QED
      BY <2>4, <3>2, <3>3, Zenon
  <2>6. Log' = [Log EXCEPT ![Last].flagged = TRUE]
    BY <2>2, <2>5
  <2>7. Promise!Flag(Last)
    BY <2>1, <2>2, <2>6 DEF Promise!Flag
  <2> QED
    BY <2>2, <2>7 DEF Promise!Next
<1>4. CASE Repeats
  <2>1. /\ Rewritten(journal') /\ now.state \in Unresolved
        /\ now.risk = old.risk /\ applied' = applied
    BY <1>4 DEF Repeats
  <2>2. /\ Last \in DOMAIN Log
        /\ Log' = [Log EXCEPT ![Last] = Summary(now)]
    BY <1>a, <2>1, RewriteMaps
  <2>3. Summary(now) = [request |-> old.request, status |-> "open",
                        flagged |-> old.risk]
    BY <1>c, <2>1 DEF Summary, Unresolved
  <2>4. Log' = Log
    BY <1>a, <1>c, <2>1, <2>2, <2>3, LogShape
  <2> QED
    BY <2>1, <2>4 DEF Promise!vars
<1>5. CASE Resolves
  <2>1. /\ Rewritten(journal') /\ now.state \in {"committed", "failed"}
        /\ now.state = "committed" => \E a \in applied : a[1] = Last
        /\ now.risk = old.risk /\ applied' = applied
    BY <1>5 DEF Resolves
  <2> DEFINE status == IF now.state = "committed" THEN "ok" ELSE "failed"
  <2>2. /\ Last \in DOMAIN Log /\ Log[Last].status = "open"
        /\ Log' = [Log EXCEPT ![Last] = Summary(now)]
    BY <1>a, <2>1, RewriteMaps
  <2>3. Summary(now) = [request |-> old.request, status |-> status,
                        flagged |-> old.risk]
    BY <1>c, <2>1 DEF Summary
  <2>4. /\ status \in {"ok", "failed"}
        /\ status = "ok" => \E a \in applied : a[1] = Last
    BY <2>1
  <2> HIDE DEF status
  <2>5. Summary(now) = [Log[Last] EXCEPT !.status = status]
    BY <1>c, <2>1, <2>3
  <2>6. Log' = [Log EXCEPT ![Last].status = status]
    BY <2>2, <2>5
  <2>7. Promise!Close(Last, status)
    BY <2>1, <2>2, <2>4, <2>6 DEF Promise!Close
  <2> QED
    BY <2>2, <2>4, <2>7 DEF Promise!Next
<1>6. CASE Opens
  <2>1. PICK q \in Requests : journal' = Append(journal, NewRecord(q))
    BY <1>6 DEF Opens
  <2>2. TailState \notin Unresolved /\ applied' = applied
    BY <1>6 DEF Opens
  <2>3. \A s \in DOMAIN Log : Log[s].status # "open"
    <3>1. \A s \in DOMAIN journal : journal[s].state \notin Unresolved
      BY <1>a, <2>2 DEF JournalInv, TailState, Last
    <3> QED
      BY <1>a, <3>1, LogShape
  <2> DEFINE entry == [request |-> q, status |-> "open", flagged |-> FALSE]
  <2>4. NewRecord(q) \in OperationRecord /\ Summary(NewRecord(q)) = entry
    BY BoundsAssumption
       DEF NewRecord, OperationRecord, OperationState, Summary
  <2>5. /\ Len(journal') = Last + 1 /\ Last \in Nat
        /\ journal'[Last + 1] = NewRecord(q)
        /\ \A s \in 1..Last : journal'[s] = journal[s]
    BY <1>a, <2>1, <2>4 DEF Last
  <2>6. Log' = Append(Log, entry)
    <3> DEFINE Entries == [request : Requests, status : {"open", "ok", "failed"},
                           flagged : BOOLEAN]
    <3>0. entry \in Entries
      OBVIOUS
    <3> HIDE DEF entry, Entries
    <3>1. Log \in Seq(Entries) /\ Len(Log) = Last
      BY <1>a, LogShape DEF Entries
    <3>2. /\ DOMAIN Append(Log, entry) = 1..(Last + 1)
          /\ Append(Log, entry)[Last + 1] = entry
          /\ \A s \in 1..Last : Append(Log, entry)[s] = Log[s]
      BY <2>5, <3>0, <3>1
    <3>6. Append(Log, entry)
            = [s \in 1..(Last + 1) |-> Append(Log, entry)[s]]
      <4>1. Append(Log, entry) \in Seq(Entries)
        BY <3>0, <3>1
      <4>2. Len(Append(Log, entry)) = Last + 1 /\ Last + 1 \in Nat
        BY <2>5, <3>0, <3>1
      <4>3. Append(Log, entry) \in [1..(Last + 1) -> Entries]
        <5>1. \A S, f, n : f \in Seq(S) /\ Len(f) = n => f \in [1..n -> S]
          OBVIOUS
        <5> QED
          BY <4>1, <4>2, <5>1, Zenon
      <4> QED
        BY <4>3, Zenon
    <3>3. Log' = [s \in 1..(Last + 1) |-> Summary(journal'[s])]
      BY <1>b, <2>5 DEF Log
    <3>4. \A s \in 1..Last : Log[s] = Summary(journal[s])
      BY <1>a, LogShape DEF Last
    <3>5. \A s \in 1..(Last + 1) : Summary(journal'[s]) = Append(Log, entry)[s]
      <4> TAKE s \in 1..(Last + 1)
      <4>1. CASE s = Last + 1
        BY <2>4, <2>5, <3>2, <4>1
      <4>2. CASE s \in 1..Last
        BY <2>5, <3>2, <3>4, <4>2
      <4>3. s = Last + 1 \/ s \in 1..Last
        BY <2>5
      <4> QED
        BY <4>1, <4>2, <4>3
    <3> QED
      BY <3>3, <3>5, <3>6
  <2>7. Promise!Open(q)
    BY <2>2, <2>3, <2>6 DEF Promise!Open
  <2> QED
    BY <2>7 DEF Promise!Next
<1> QED
  BY <1>1, <1>2, <1>3, <1>4, <1>5, <1>6, StepForms

\* Every behaviour of the journal is an at-least-once history of requests
\* in which duplicated effects are flagged.
THEOREM Refinement == Spec => ImplementsAtLeastOnce
<1>1. Init => Promise!Init
  <2> SUFFICES ASSUME Init
               PROVE  Promise!Init
    OBVIOUS
  <2>1. journal = <<>> /\ applied = {}
    BY DEF Init
  <2>2. Log = <<>>
    BY <2>1 DEF Log
  <2> QED
    BY <2>1, <2>2 DEF Promise!Init
<1> QED
  BY <1>1, StepImplements, Invariance, PTL
     DEF Spec, ImplementsAtLeastOnce, Promise!Spec

=============================================================================

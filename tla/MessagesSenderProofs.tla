------------------------ MODULE MessagesSenderProofs ------------------------
(***************************************************************************)
(* Theorems about MessagesSender, for any messages, recipients and bounds. *)
(* When a message for several is removed or refused by the encoder, the    *)
(* sender may post to the others of them what it encoded before.  The types*)
(* and the way the rows go do not depend on that; how often a message      *)
(* arrives is said of the rows that cannot be hit by it; and what          *)
(* "delivered" means depends only on the messages that cannot be encoded.  *)
(***************************************************************************)
EXTENDS MessagesSender, WellFoundedInduction, TLAPS

-----------------------------------------------------------------------------
(* The pass that is under way.                                             *)

LEMMA SmallestOf ==
    ASSUME NEW S, S \subseteq Nat, S # {}
    PROVE  \E x \in S : \A y \in S : x =< y
<1> DEFINE Less == {p \in Nat \X Nat : p[1] < p[2]}
<1>1. IsWellFoundedOn(Less, Nat)
    BY NatLessThanWellFounded DEF OpToRel
<1>2. PICK x \in S : \A y \in S : ~ (<<y, x>> \in Less)
    BY <1>1, WFMin
<1>3. ASSUME NEW y \in S PROVE x =< y
    <2>1. x \in Nat /\ y \in Nat /\ <<y, x>> \in Nat \X Nat
        OBVIOUS
    <2>2. y < x => <<y, x>> \in Less
        BY <2>1, SMT
    <2> QED BY <1>2, <2>1, <2>2, SMT
<1> QED BY <1>3, Zenon

LEMMA SlotParts ==
    ASSUME NEW s \in Slots
    PROVE  s[1] \in Msgs /\ s[1] \in Nat /\ s[2] \in Recipients /\ s[2] \in Nat /\ s = <<s[1], s[2]>>
<1>1. s \in Msgs \X Recipients
    BY DEF Slots
<1>2. s[1] \in Msgs /\ s[2] \in Recipients /\ s = <<s[1], s[2]>>
    BY <1>1
<1> QED BY <1>2, SenderAssumption

\* The rows that are left have a first one.
LEMMA FirstIsLeft ==
    ASSUME rest \subseteq Slots, rest # {}
    PROVE  First \in rest /\ First \in Slots /\ \A t \in rest : First[1] =< t[1]
<1> DEFINE A == {s[1] : s \in rest}
<1>1. A \subseteq Nat /\ A # {}
    BY SlotParts
<1>2. PICK a \in A : \A y \in A : a =< y
    BY <1>1, SmallestOf, Zenon
<1> DEFINE B == {s[2] : s \in {t \in rest : t[1] = a}}
<1>3. B \subseteq Nat /\ B # {}
    BY <1>2, SlotParts
<1>4. PICK b \in B : \A y \in B : b =< y
    BY <1>3, SmallestOf, Zenon
<1>5. PICK s \in rest : s[1] = a /\ s[2] = b
    BY <1>4
<1>6. ASSUME NEW t \in rest PROVE s = t \/ InOrder(s, t)
    <2>1. s \in Slots /\ t \in Slots /\ t[1] \in A
        OBVIOUS
    <2>2. a =< t[1] /\ (t[1] = a => b =< t[2])
        BY <1>2, <1>4, <2>1
    <2>3. /\ s[1] \in Nat /\ s[2] \in Nat /\ t[1] \in Nat /\ t[2] \in Nat
          /\ s = <<s[1], s[2]>> /\ t = <<t[1], t[2]>>
        BY <2>1, SlotParts
    <2>4. s[1] = t[1] /\ s[2] = t[2] => s = t
        BY <2>3, Zenon
    <2> QED BY <1>5, <2>2, <2>3, <2>4 DEF InOrder
<1>7. \E s_1 \in rest : \A t \in rest : s_1 = t \/ InOrder(s_1, t)
    BY <1>6, Zenon
<1>8. First \in rest /\ \A t \in rest : First = t \/ InOrder(First, t)
    BY <1>7, Zenon DEF First
<1>9. ASSUME NEW t \in rest PROVE First[1] =< t[1]
    <2>1. First[1] \in Nat /\ t[1] \in Nat
        BY <1>8, SlotParts
    <2> QED BY <1>8, <2>1 DEF InOrder
<1> QED BY <1>8, <1>9

\* The pass stays while no row leaves.
LEMMA FirstStays ==
    ASSUME rest' = rest
    PROVE  First' = First /\ Rcpt' = Rcpt
<1>1. First' = First
    BY Zenon DEF First, InOrder
<1> QED BY <1>1, Zenon DEF Rcpt

-----------------------------------------------------------------------------
(* The rows, whoever the messages are for.  What the run has read stays     *)
(* unsent or goes with its message until its pass has come.                 *)

Outcomes == States \ {"absent", "unsent"}

\* A row is of a message there is, for one of its participants.
RowsAreKnown ==
    \A s \in Slots : delivery[s] # "absent" => s[1] \in stored /\ s[2] \in Participants[s[1]]

RowTypes ==
    /\ delivery \in [Slots -> States] /\ stored \subseteq Msgs
    /\ rest \subseteq Slots
    /\ received \in [Contents \X Recipients -> Nat]
    /\ encoded \in Contents

RunsOverRows ==
    /\ pc = "idle" => rest = {} /\ current = None
    /\ pc \in {"encoded", "ready", "accepted"} => rest # {} /\ current = First[1]
    /\ \A s \in rest :
          delivery[s] \in {"unsent", "absent"} /\ s[1] \in stored /\ s[2] \in Participants[s[1]]

Reading == RowTypes /\ RowsAreKnown /\ RunsOverRows

LEMMA ReadingInit == Init => Reading
<1> SUFFICES ASSUME Init PROVE Reading
    OBVIOUS
<1>1. RowTypes
    BY DEF Init, RowTypes, States, Contents
<1> QED BY <1>1 DEF Init, Reading, RowsAreKnown, RunsOverRows

LEMMA FirstIsOpen ==
    ASSUME Reading, rest # {}
    PROVE  /\ First \in rest /\ First \in Slots /\ delivery[First] \in {"unsent", "absent"}
           /\ First[1] \in stored /\ First[2] \in Participants[First[1]]
           /\ First[1] \in Msgs /\ First = <<First[1], Rcpt>>
           /\ <<encoded, Rcpt>> \in Contents \X Recipients
<1>1. First \in rest /\ First \in Slots
    BY FirstIsLeft DEF Reading, RowTypes
<1>2. First[1] \in Msgs /\ First[2] \in Recipients /\ First = <<First[1], First[2]>>
    BY <1>1, SlotParts
<1> QED BY <1>1, <1>2 DEF Reading, RowTypes, RunsOverRows, Rcpt

\* What a pass may do to the table: its row gets an outcome if it is still there,
\* or all rows of a message that is removed go.
Settled(rows) ==
    \/ delivery[First] = "absent" /\ rows = delivery
    \/ \E state \in Outcomes :
          delivery[First] = "unsent" /\ rows = [delivery EXCEPT ![First] = state]
    \/ /\ First[1] \in removed
       /\ rows = [s \in Slots |-> IF s[1] = First[1] THEN "absent" ELSE delivery[s]]

LEMMA MarkSettles ==
    ASSUME Reading, rest # {}, NEW state \in Outcomes
    PROVE  Settled(Marked(First, state))
BY FirstIsOpen DEF Marked, Settled

LEMMA SettledRow ==
    ASSUME Reading, rest # {}, NEW rows, Settled(rows)
    PROVE  /\ rows \in [Slots -> States] /\ rows[First] # "unsent"
           /\ \A s \in Slots : rows[s] = delivery[s] \/ rows[s] = "absent" \/ s = First
           /\ \A s \in Slots : rows[s] # "absent" => delivery[s] # "absent"
           /\ \A s \in Slots :
                 \/ rows[s] = delivery[s]
                 \/ delivery[s] = "unsent" /\ rows[s] \in Outcomes
                 \/ rows[s] = "absent" /\ s[1] \in removed
<1>1. First \in Slots /\ delivery \in [Slots -> States]
    BY FirstIsOpen DEF Reading, RowTypes
<1>2. CASE delivery[First] = "absent" /\ rows = delivery
    BY <1>1, <1>2
<1>3. ASSUME NEW state \in Outcomes, delivery[First] = "unsent", rows = [delivery EXCEPT ![First] = state]
      PROVE  /\ rows \in [Slots -> States]
             /\ \A s \in Slots : s # First => rows[s] = delivery[s]
             /\ rows[First] = state
    BY <1>1, <1>3 DEF Outcomes
<1>4. CASE /\ First[1] \in removed
           /\ rows = [s \in Slots |-> IF s[1] = First[1] THEN "absent" ELSE delivery[s]]
    <2>1. rows \in [Slots -> States]
        BY <1>1, <1>4 DEF States
    <2>2. \A s \in Slots : rows[s] = IF s[1] = First[1] THEN "absent" ELSE delivery[s]
        BY <1>4
    <2>3. rows[First] = "absent"
        BY <1>1, <2>2
    <2> QED BY <1>4, <2>1, <2>2, <2>3
<1>5. ASSUME NEW state \in Outcomes, delivery[First] = "unsent", rows = [delivery EXCEPT ![First] = state]
      PROVE  /\ rows[First] # "unsent" /\ rows[First] # "absent"
             /\ \A s \in Slots :
                    \/ rows[s] = delivery[s]
                    \/ delivery[s] = "unsent" /\ rows[s] \in Outcomes
    BY <1>3, <1>5 DEF Outcomes
<1> QED BY <1>2, <1>3, <1>4, <1>5 DEF Settled

\* A pass ends.
Passes == rest # {} /\ pc # "idle" /\ \E rows \in [Slots -> States] : Settled(rows) /\ Continue(rows)

LEMMA MarkPasses ==
    ASSUME Reading, rest # {}, pc # "idle", NEW state \in Outcomes, MarkAsFailed(state)
    PROVE  Passes
<1> DEFINE rows == Marked(First, state)
<1>1. Settled(rows)
    BY MarkSettles, Zenon
<1>2. Continue(rows)
    BY Zenon DEF MarkAsFailed
<1> HIDE DEF rows
<1>3. rows \in [Slots -> States]
    BY <1>1, SettledRow
<1> QED BY <1>1, <1>2, <1>3 DEF Passes

RowGoesOneWay(s) ==
    \/ delivery'[s] = delivery[s]
    \/ delivery[s] = "absent" /\ delivery'[s] = "unsent" /\ s[1] \notin stored
    \/ delivery[s] = "unsent" /\ delivery'[s] \in Outcomes
    \/ delivery'[s] = "absent" /\ s[1] \in removed

LEMMA PassKeepsReading ==
    ASSUME Reading, Passes, encoded' \in Contents, received' \in [Contents \X Recipients -> Nat]
    PROVE  Reading' /\ (\A s \in Slots : RowGoesOneWay(s))
<1>1. PICK rows \in [Slots -> States] : Settled(rows) /\ Continue(rows) /\ rest # {}
    BY DEF Passes
<1>2. /\ \A s \in Slots : rows[s] = delivery[s] \/ rows[s] = "absent" \/ s = First
      /\ \A s \in Slots : rows[s] # "absent" => delivery[s] # "absent"
      /\ \A s \in Slots :
            \/ rows[s] = delivery[s]
            \/ delivery[s] = "unsent" /\ rows[s] \in Outcomes
            \/ rows[s] = "absent" /\ s[1] \in removed
    BY <1>1, SettledRow, Zenon
<1>3. delivery' = rows /\ pc' = "loop" /\ rest' = rest \ {First} /\ stored' = stored
    BY <1>1 DEF Continue
<1>4. RowTypes'
    BY <1>3 DEF Reading, RowTypes
<1>5. RowsAreKnown'
    BY <1>2, <1>3 DEF Reading, RowsAreKnown
<1>6. RunsOverRows'
    <2>1. ASSUME NEW s \in rest'
          PROVE  delivery'[s] \in {"unsent", "absent"} /\ s[1] \in stored' /\ s[2] \in Participants[s[1]]
        <3>1. s \in rest /\ s # First /\ s \in Slots
            BY <1>3 DEF Reading, RowTypes
        <3> QED BY <1>2, <1>3, <3>1 DEF Reading, RunsOverRows
    <2> QED BY <1>3, <2>1 DEF RunsOverRows
<1>7. \A s \in Slots : RowGoesOneWay(s)
    BY <1>2, <1>3 DEF RowGoesOneWay
<1> QED BY <1>4, <1>5, <1>6, <1>7 DEF Reading

\* What each step does, in the terms of the rows.
LEMMA StepsOfRun ==
    ASSUME Reading, Run \/ Restart
    PROVE  /\ encoded' \in Contents
           /\ \/ UNCHANGED received
              \/ Post /\ rest # {} /\ Arrive
           /\ \/ Passes
              \/ Leave /\ UNCHANGED db
              \/ /\ UNCHANGED <<delivery, stored, rest>>
                 /\ pc' \in {"encoded", "ready", "accepted"} /\ rest # {}
                 /\ pc # "loop" => UNCHANGED current
                 /\ pc = "loop" => current' = First[1]
                 /\ pc # "idle"
              \/ Start
<1>a. encoded \in Contents /\ None \in Contents
    BY DEF Reading, RowTypes, Contents
<1>b. pc \in {"encoded", "ready", "accepted"} => rest # {}
    BY DEF Reading, RunsOverRows
<1>1. CASE Start
    BY <1>1, <1>a DEF Start
<1>2. CASE NextRecipient
    <2>1. CASE rest = {}
        BY <1>2, <1>a, <2>1 DEF NextRecipient, Leave
    <2>2. CASE rest # {}
        <3>0. pc = "loop" /\ Load /\ UNCHANGED received /\ current' = First[1] /\ First[1] \in Contents
            BY <1>2, <2>2, FirstIsOpen DEF NextRecipient, Load, Contents
        <3>1. CASE pc' = "encoded" /\ UNCHANGED <<rest, cancelled, db>> /\ encoded' \in {encoded, First[1]}
            BY <1>a, <2>2, <3>0, <3>1 DEF db
        <3>2. CASE First[1] \in removed /\ UNCHANGED encoded
                     /\ Continue([s \in Slots |-> IF s[1] = First[1] THEN "absent" ELSE delivery[s]])
            <4> DEFINE rows == [s \in Slots |-> IF s[1] = First[1] THEN "absent" ELSE delivery[s]]
            <4>1. Settled(rows)
                BY <3>2, Zenon DEF Settled
            <4>2. Continue(rows)
                BY <3>2, Zenon
            <4> HIDE DEF rows
            <4>3. rows \in [Slots -> States]
                BY <2>2, <4>1, SettledRow
            <4> QED BY <1>a, <2>2, <3>0, <3>2, <4>1, <4>2, <4>3 DEF Passes
        <3>3. CASE MarkAsFailed("unknown") /\ UNCHANGED encoded
            <4>1. Passes
                BY <2>2, <3>0, <3>3, MarkPasses DEF Outcomes, States
            <4> QED BY <1>a, <3>0, <3>3, <4>1
        <3> QED BY <3>0, <3>1, <3>2, <3>3 DEF Load
    <2> QED BY <2>1, <2>2
<1>3. CASE ThrowCanceled
    BY <1>3, <1>a DEF ThrowCanceled, Leave
<1>4. CASE GetPublicKey
    <2>1. pc = "encoded" /\ rest # {} /\ UNCHANGED <<current, encoded, received>>
        BY <1>4, <1>b DEF GetPublicKey
    <2>2. CASE MarkAsFailed("doesnt_exist") \/ MarkAsFailed("unknown")
        <3>1. Passes
            BY <2>1, <2>2, MarkPasses DEF Outcomes, States
        <3> QED BY <1>a, <2>1, <3>1
    <2> QED BY <1>4, <1>a, <2>1, <2>2 DEF GetPublicKey, db
<1>5. CASE Post
    <2>1. pc = "ready" /\ rest # {} /\ (UNCHANGED received \/ Arrive)
        BY <1>5, <1>b DEF Post, MayArrive
    <2>2. CASE (MarkAsFailed("doesnt_exist") \/ MarkAsFailed("unknown")) /\ UNCHANGED encoded
        <3>1. Passes
            BY <2>1, <2>2, MarkPasses DEF Outcomes, States
        <3> QED BY <1>5, <1>a, <2>1, <2>2, <3>1
    <2> QED BY <1>5, <1>a, <2>1, <2>2 DEF Post, Leave, db
<1>6. CASE MarkAsDelivered
    <2>1. pc = "accepted" /\ rest # {} /\ UNCHANGED <<encoded, received>> /\ MarkAsFailed("delivered")
        BY <1>6, <1>b DEF MarkAsDelivered, MarkAsFailed
    <2>2. Passes
        BY <2>1, MarkPasses DEF Outcomes, States
    <2> QED BY <1>a, <2>1, <2>2
<1>7. CASE Restart
    BY <1>7, <1>a DEF Restart, Leave, db
<1> QED BY <1>1, <1>2, <1>3, <1>4, <1>5, <1>6, <1>7 DEF Run

\* What was posted is counted, and stays so.
LEMMA CountsGrow ==
    ASSUME Reading, [Next]_vars
    PROVE  /\ received' \in [Contents \X Recipients -> Nat]
           /\ \A s \in Slots : received[s] \in Nat /\ received'[s] \in Nat /\ received[s] =< received'[s]
<1>0. received \in [Contents \X Recipients -> Nat] /\ Slots \subseteq Contents \X Recipients
    BY DEF Reading, RowTypes, Slots, Contents
<1>1. UNCHANGED received \/ (Post /\ rest # {} /\ Arrive)
    BY StepsOfRun DEF Next, vars, InsertDelivery, RemoveMessage, Cancel
<1>2. CASE rest # {} /\ Arrive
    <2>1. <<encoded, Rcpt>> \in Contents \X Recipients
        BY <1>2, FirstIsOpen
    <2>2. received' = [received EXCEPT ![<<encoded, Rcpt>>] = received[<<encoded, Rcpt>>] + 1]
        BY <1>2, Zenon DEF Arrive
    <2> QED BY <1>0, <2>1, <2>2
<1> QED BY <1>0, <1>1, <1>2

LEMMA ReadingNext ==
    ASSUME Reading, [Next]_vars
    PROVE  Reading' /\ (\A s \in Slots : RowGoesOneWay(s))
<1>0. received' \in [Contents \X Recipients -> Nat]
    BY CountsGrow
<1>a. ASSUME UNCHANGED <<delivery, stored>>, encoded' \in Contents, rest' = rest \/ rest' = {},
             pc' = "idle" => rest' = {} /\ current' = None,
             pc' \in {"encoded", "ready", "accepted"} => rest' # {} /\ current' = First'[1]
      PROVE  Reading' /\ (\A s \in Slots : RowGoesOneWay(s))
    <2>1. RowTypes'
        BY <1>0, <1>a DEF Reading, RowTypes
    <2>2. RowsAreKnown' /\ RunsOverRows'
        BY <1>a DEF Reading, RowsAreKnown, RunsOverRows
    <2> QED BY <1>a, <2>1, <2>2 DEF Reading, RowGoesOneWay
<1>b. encoded \in Contents /\ None \in Contents
    BY DEF Reading, RowTypes, Contents
<1>1. ASSUME NEW m \in Msgs, InsertDelivery(m) PROVE Reading' /\ (\A s \in Slots : RowGoesOneWay(s))
    <2>0. /\ pc = "idle" /\ m \notin stored /\ stored' = stored \cup {m}
          /\ delivery' = [s \in Slots |-> IF s[1] = m /\ s[2] \in Participants[m]
                                          THEN "unsent" ELSE delivery[s]]
          /\ UNCHANGED <<pc, rest, current, encoded, received>>
        BY <1>1 DEF InsertDelivery
    <2>1. delivery' \in [Slots -> States]
        BY <2>0 DEF Reading, RowTypes, States
    <2>2. RowTypes'
        BY <1>0, <2>0, <2>1 DEF Reading, RowTypes
    <2>3. \A s \in Slots : s[1] = m => delivery[s] = "absent"
        BY <2>0 DEF Reading, RowsAreKnown
    <2>4. RowsAreKnown'
        BY <2>0 DEF Reading, RowsAreKnown
    <2>5. RunsOverRows'
        BY <2>0 DEF Reading, RunsOverRows
    <2>6. \A s \in Slots : RowGoesOneWay(s)
        BY <2>0, <2>3 DEF RowGoesOneWay
    <2> QED BY <2>2, <2>4, <2>5, <2>6 DEF Reading
<1>2. CASE (\E m \in Msgs : RemoveMessage(m)) \/ Cancel \/ UNCHANGED vars
    <2>1. UNCHANGED <<delivery, stored, encoded, rest, pc, current>>
        BY <1>2 DEF RemoveMessage, Cancel, vars, db
    <2>2. First' = First
        BY <2>1, FirstStays
    <2> QED BY <1>a, <1>b, <2>1, <2>2 DEF Reading, RunsOverRows
<1>3. CASE Run \/ Restart
    <2>0. encoded' \in Contents
        BY <1>3, StepsOfRun
    <2>1. CASE Passes
        BY <1>0, <2>0, <2>1, PassKeepsReading
    <2>2. CASE Leave /\ UNCHANGED db
        BY <1>a, <2>0, <2>2 DEF Leave, db
    <2>3. CASE /\ UNCHANGED <<delivery, stored, rest>>
               /\ pc' \in {"encoded", "ready", "accepted"} /\ rest # {} /\ pc # "idle"
               /\ pc # "loop" => UNCHANGED current
               /\ pc = "loop" => current' = First[1]
        <3>1. First' = First
            BY <2>3, FirstStays
        <3>2. current' = First[1]
            <4>1. pc \in {"encoded", "ready", "accepted"} \/ pc = "loop"
                BY <1>3, <2>3 DEF Run, Restart, Start, NextRecipient, ThrowCanceled, GetPublicKey, Post,
                                  MarkAsDelivered, Leave
            <4> QED BY <2>3, <4>1 DEF Reading, RunsOverRows
        <3> QED BY <1>a, <2>0, <2>3, <3>1, <3>2
    <2>4. CASE Start
        <3>1. /\ pc' = "loop" /\ rest' = Unsent
              /\ UNCHANGED <<delivery, stored, encoded>>
            BY <2>4 DEF Start, db
        <3>2. RowTypes'
            BY <1>0, <3>1 DEF Reading, RowTypes, Unsent
        <3>3. RowsAreKnown'
            BY <3>1 DEF Reading, RowsAreKnown
        <3>4. RunsOverRows'
            BY <3>1 DEF Reading, RowsAreKnown, RunsOverRows, Unsent
        <3> QED BY <3>1, <3>2, <3>3, <3>4 DEF Reading, RowGoesOneWay
    <2> QED BY <1>3, <2>1, <2>2, <2>3, <2>4, StepsOfRun
<1> QED BY <1>1, <1>2, <1>3 DEF Next

\* A recipient of a message gets one outcome: it is entered in a row that is
\* unsent, no later run, failure or cancel changes it, a row goes only with its
\* message, and one that has gone is not sent again.
THEOREM RowsGoOneWay == Spec => [][\A s \in Slots : RowGoesOneWay(s)]_vars
<1>1. Reading /\ [Next]_vars => [\A s \in Slots : RowGoesOneWay(s)]_vars
    BY ReadingNext
<1>2. Reading /\ [Next]_vars => Reading'
    BY ReadingNext
<1> QED BY <1>1, <1>2, ReadingInit, PTL DEF Spec

-----------------------------------------------------------------------------
(* Types.  Each abort has a fault of its own, the cancel that led to it as  *)
(* well.                                                                    *)

AbortsAreFaults == aborts =< faults /\ (cancelled => aborts + 1 =< faults)

Control ==
    /\ removed \subseteq stored \cap Removable
    /\ pc \in {"idle", "loop", "encoded", "ready", "accepted"}
    /\ current \in Contents
    /\ cancelled \in BOOLEAN
    /\ aborts \in 0 .. MaxFaults /\ faults \in 0 .. MaxFaults
    /\ AbortsAreFaults

Running == Reading /\ Control

LEMMA RunningInit == Init => Running
<1> SUFFICES ASSUME Init PROVE Running
    OBVIOUS
<1>1. aborts \in 0 .. MaxFaults /\ faults \in 0 .. MaxFaults
    BY SenderAssumption DEF Init
<1>2. /\ stored = {} /\ removed = {} /\ pc = "idle" /\ current = None /\ cancelled = FALSE
      /\ aborts = 0 /\ faults = 0
    BY DEF Init
<1>3. Control
    <2>1. removed \subseteq stored \cap Removable /\ current \in Contents
        BY <1>2 DEF Contents
    <2>2. cancelled \in BOOLEAN /\ ~cancelled
        BY <1>2, Zenon
    <2>3. AbortsAreFaults
        BY <1>2, <2>2 DEF AbortsAreFaults
    <2> QED BY <1>1, <1>2, <2>1, <2>2, <2>3, Zenon DEF Control
<1> QED BY <1>3, ReadingInit DEF Running

LEMMA ControlNext == Running /\ [Next]_vars => Control'
<1> SUFFICES ASSUME Running, [Next]_vars PROVE Control'
    OBVIOUS
<1>a. /\ aborts \in 0 .. MaxFaults /\ faults \in 0 .. MaxFaults /\ aborts =< faults
      /\ cancelled => aborts + 1 =< faults
      /\ MaxFaults \in Nat
      /\ Fault => faults' \in 0 .. MaxFaults /\ faults' = faults + 1
    BY SenderAssumption DEF Running, Control, AbortsAreFaults, Fault
<1>b. removed \subseteq stored \cap Removable /\ current \in Contents /\ None \in Contents
    BY DEF Running, Control, Contents
<1>c. rest # {} => First[1] \in Contents
    BY FirstIsOpen DEF Running, Contents
\* a run ends
<1>d. ASSUME Leave, UNCHANGED <<stored, removed>>, faults' \in 0 .. MaxFaults,
             aborts' \in 0 .. MaxFaults, aborts' =< faults'
      PROVE  Control'
    <2>1. cancelled' = FALSE /\ pc' = "idle" /\ current' = None
        BY <1>d DEF Leave
    <2> QED BY <1>b, <1>d, <2>1 DEF Control, AbortsAreFaults
\* a run goes on
<1>e. ASSUME UNCHANGED <<stored, removed, cancelled, aborts>>, UNCHANGED faults \/ Fault,
             pc' \in {"idle", "loop", "encoded", "ready", "accepted"}, current' \in Contents
      PROVE  Control'
    <2>1. faults' \in 0 .. MaxFaults /\ faults =< faults'
        BY <1>a, <1>e
    <2> QED BY <1>a, <1>b, <1>e, <2>1 DEF Running, Control, AbortsAreFaults
<1>f. ASSUME NEW reason, MarkAsFailed(reason), UNCHANGED aborts, UNCHANGED faults \/ Fault,
             current' \in Contents
      PROVE  Control'
    BY <1>e, <1>f DEF MarkAsFailed, Continue
<1>1. ASSUME NEW m \in Msgs, InsertDelivery(m) PROVE Control'
    BY <1>1 DEF InsertDelivery, Running, Control, AbortsAreFaults
<1>2. ASSUME NEW m \in Msgs, RemoveMessage(m) PROVE Control'
    BY <1>2 DEF RemoveMessage, Running, Control, AbortsAreFaults
<1>3. CASE Cancel
    <2>1. aborts' = aborts /\ cancelled' = TRUE /\ UNCHANGED <<stored, removed, pc, current>> /\ Fault
        BY <1>3 DEF Cancel, db
    <2>2. faults' \in 0 .. MaxFaults /\ aborts' + 1 =< faults' /\ aborts' =< faults'
        BY <1>a, <2>1
    <2>3. cancelled' \in BOOLEAN
        BY <2>1, Zenon
    <2> QED BY <2>1, <2>2, <2>3 DEF Running, Control, AbortsAreFaults
<1>4. CASE UNCHANGED vars
    BY <1>4 DEF vars, db, Running, Control, AbortsAreFaults
<1>5. CASE Start
    BY <1>5, <1>b, <1>e DEF Start, db
<1>6. CASE NextRecipient
    <2>1. CASE rest = {}
        BY <1>6, <1>a, <1>d, <2>1 DEF NextRecipient, db
    <2>2. CASE rest # {}
        <3>1. Load /\ UNCHANGED <<aborts, faults>> /\ current' \in Contents
            BY <1>6, <1>c, <2>2 DEF NextRecipient, Load
        <3> QED BY <1>e, <1>f, <3>1 DEF Load, Continue, db
    <2> QED BY <2>1, <2>2
<1>7. CASE ThrowCanceled
    BY <1>7, <1>a, <1>d DEF ThrowCanceled, db
<1>8. CASE GetPublicKey
    BY <1>8, <1>b, <1>e, <1>f DEF GetPublicKey, db
<1>9. CASE Post
    <2>1. CASE cancelled /\ Leave /\ aborts' = aborts + 1 /\ UNCHANGED <<db, faults>>
        <3>1. aborts' \in 0 .. MaxFaults /\ aborts' =< faults' /\ faults' \in 0 .. MaxFaults
            BY <1>a, <2>1
        <3> QED BY <1>d, <2>1, <3>1 DEF db
    <2> QED BY <1>9, <1>b, <1>e, <1>f, <2>1 DEF Post, db
<1>10. CASE MarkAsDelivered
    BY <1>10, <1>b, <1>e DEF MarkAsDelivered, Continue
<1>11. CASE Restart
    <2>1. Leave /\ Fault /\ UNCHANGED db /\ aborts' \in {aborts, aborts + 1}
        BY <1>11 DEF Restart
    <2>2. aborts' \in 0 .. MaxFaults /\ aborts' =< faults' /\ faults' \in 0 .. MaxFaults
        BY <1>a, <2>1
    <2> QED BY <1>d, <2>1, <2>2 DEF db
<1> QED BY <1>1, <1>2, <1>3, <1>4, <1>5, <1>6, <1>7, <1>8, <1>9, <1>10, <1>11 DEF Next, Run

LEMMA RunningNext == Running /\ [Next]_vars => Running'
BY ReadingNext, ControlNext DEF Running

\* The types of the sender's state; whenever run() gets to a post, there is a row left
\* that it is for; and aborts are bounded by the cancels and crashes there were.
THEOREM TypeCorrect == Spec => []TypeOK
<1>1. Running => TypeOK
    BY DEF Running, Reading, RowTypes, RunsOverRows, Control, TypeOK
<1> QED BY <1>1, RunningInit, RunningNext, PTL DEF Spec

-----------------------------------------------------------------------------
(* What arrives.  The messages of a run come one after the other.  The      *)
(* buffer is for the one the loop is at, or that one was refused, and then  *)
(* it had another recipient, whom the buffer is not posted to.              *)

BufferOrRefused ==
    /\ encoded # None => current # None /\ encoded =< current
    /\ \A s \in rest :
          /\ current # None => current =< s[1]
          /\ s[1] # current => delivery[s] = "unsent"
          /\ s[1] = current =>
                \/ encoded = current /\ delivery[s] = "unsent"
                \/ /\ encoded # current /\ current \in Removable \cup Unencodable
                   /\ \E q \in Participants[current] : q # s[2]

Visiting == Running /\ BufferOrRefused

LEMMA VisitingInit == Init => Visiting
BY RunningInit DEF Init, Visiting, BufferOrRefused

LEMMA MessageNumbers ==
    ASSUME Running
    PROVE  /\ Msgs \subseteq Nat /\ None \notin Msgs
           /\ current \in Msgs \cup {None} /\ encoded \in Msgs \cup {None}
           /\ rest \subseteq Slots /\ \A s \in rest : s[1] \in Msgs /\ s[1] \in Nat
<1>1. rest \subseteq Slots
    BY DEF Running, Reading, RowTypes
<1>2. \A s \in rest : s[1] \in Msgs /\ s[1] \in Nat
    BY <1>1, SlotParts
<1> QED BY <1>1, <1>2, SenderAssumption DEF Running, Reading, RowTypes, Control, Contents

\* A pass that ends behind its load.
LEMMA VisitingMark ==
    ASSUME Visiting, rest # {}, NEW state, MarkAsFailed(state), UNCHANGED <<current, encoded>>
    PROVE  BufferOrRefused'
<1>1. First \in Slots /\ delivery \in [Slots -> States] /\ rest \subseteq Slots
    BY FirstIsOpen DEF Visiting, Running, Reading, RowTypes
<1>2. delivery' = Marked(First, state) /\ rest' = rest \ {First}
    BY DEF MarkAsFailed, Continue
<1>3. \A s \in rest' : s \in rest /\ delivery'[s] = delivery[s]
    BY <1>1, <1>2 DEF Marked
<1> QED BY <1>3 DEF Visiting, BufferOrRefused

\* The load for another message than the one before.
LEMMA NextMessage ==
    ASSUME Visiting, rest # {}, First[1] # current
    PROVE  /\ encoded # First[1]
           /\ \A s \in rest : First[1] =< s[1] /\ delivery[s] = "unsent"
<1>1. First \in rest /\ \A s \in rest : First[1] =< s[1]
    BY FirstIsLeft DEF Visiting, Running, Reading, RowTypes
<1>2. /\ Msgs \subseteq Nat /\ None \notin Msgs /\ current \in Msgs \cup {None} /\ encoded \in Msgs \cup {None}
      /\ \A s \in rest : s[1] \in Msgs /\ s[1] \in Nat
    BY MessageNumbers DEF Visiting
<1>3. current # None => current =< First[1]
    BY <1>1 DEF Visiting, BufferOrRefused
<1>4. encoded # First[1]
    <2>1. CASE encoded = None
        BY <1>1, <1>2, <2>1
    <2>2. CASE encoded # None
        <3>1. encoded =< current /\ current # None
            BY <2>2 DEF Visiting, BufferOrRefused
        <3>2. encoded \in Nat /\ current \in Nat /\ First[1] \in Nat
            BY <1>1, <1>2, <2>2, <3>1
        <3> QED BY <1>3, <3>1, <3>2
    <2> QED BY <2>1, <2>2
<1>5. ASSUME NEW s \in rest PROVE s[1] # current
    <2>1. CASE current = None
        BY <1>2, <2>1
    <2>2. CASE current # None
        <3>1. current \in Nat /\ First[1] \in Nat /\ s[1] \in Nat /\ First[1] =< s[1]
            BY <1>1, <1>2, <2>2
        <3> QED BY <1>3, <2>2, <3>1
    <2> QED BY <2>1, <2>2
<1> QED BY <1>1, <1>4, <1>5 DEF Visiting, BufferOrRefused

LEMMA VisitingLoad ==
    ASSUME Visiting, rest # {}, Load
    PROVE  BufferOrRefused'
<1> DEFINE m == First[1]
<1>a. /\ First \in rest /\ First \in Slots /\ delivery \in [Slots -> States] /\ rest \subseteq Slots
      /\ m \in Msgs /\ First[2] \in Participants[m] /\ First = <<m, First[2]>>
    BY FirstIsOpen DEF Visiting, Running, Reading, RowTypes, Rcpt
<1>b. None \notin Msgs /\ current' = m
    BY SenderAssumption DEF Load
<1>1. CASE m = current
    BY <1>1 DEF Load, db, Visiting, BufferOrRefused
<1>2. CASE m # current
    <2>1. encoded # m /\ \A s \in rest : m =< s[1] /\ delivery[s] = "unsent"
        BY <1>2, NextMessage
    <2>2. m \in Nat /\ m # None
        BY <1>a, <1>b, SenderAssumption
    <2>3. encoded # None => encoded =< m
        <3>1. CASE encoded # None
            <4>1. encoded =< current /\ current # None /\ current =< m
                BY <1>a, <3>1 DEF Visiting, BufferOrRefused
            <4>2. encoded \in Nat /\ current \in Nat
                BY <3>1, <4>1, MessageNumbers DEF Visiting
            <4> QED BY <2>2, <4>1, <4>2
        <3> QED BY <3>1
    <2>4. CASE m \in Removable \cup Unencodable /\ UNCHANGED encoded /\ rest' = rest \ {First}
               /\ \A s \in rest' : s[1] # m => delivery'[s] = delivery[s]
        <3>1. ASSUME NEW s \in rest', s[1] = m PROVE \E q \in Participants[m] : q # s[2]
            <4>1. s \in Slots /\ s # First
                BY <1>a, <2>4
            <4>2. s = <<s[1], s[2]>>
                BY <4>1, SlotParts
            <4>3. s[2] # First[2]
                BY <1>a, <3>1, <4>1, <4>2, Zenon
            <4> QED BY <1>a, <4>3
        <3>2. \A s \in rest' : s \in rest
            BY <2>4
        <3> QED BY <1>b, <2>1, <2>2, <2>3, <2>4, <3>1, <3>2 DEF BufferOrRefused
    <2>5. CASE /\ m \in removed /\ UNCHANGED encoded
               /\ Continue([s \in Slots |-> IF s[1] = m THEN "absent" ELSE delivery[s]])
        <3>1. m \in Removable
            BY <2>5 DEF Visiting, Running, Control
        <3>2. rest' = rest \ {First} /\ delivery' = [s \in Slots |-> IF s[1] = m THEN "absent" ELSE delivery[s]]
            BY <2>5 DEF Continue
        <3>3. \A s \in rest' : s[1] # m => delivery'[s] = delivery[s]
            BY <1>a, <3>2
        <3> QED BY <2>4, <2>5, <3>1, <3>2, <3>3
    <2>6. CASE m \in Unencodable /\ MarkAsFailed("unknown") /\ UNCHANGED encoded
        <3>1. rest' = rest \ {First} /\ delivery' = Marked(First, "unknown")
            BY <2>6 DEF MarkAsFailed, Continue
        <3>2. \A s \in rest' : delivery'[s] = delivery[s]
            BY <1>a, <3>1 DEF Marked
        <3> QED BY <2>4, <2>6, <3>1, <3>2
    <2>7. CASE encoded' = m /\ UNCHANGED <<rest, db>>
        BY <1>b, <2>1, <2>2, <2>7 DEF BufferOrRefused, db
    <2> QED BY <1>2, <2>5, <2>6, <2>7 DEF Load
<1> QED BY <1>1, <1>2

LEMMA VisitingNext == Visiting /\ [Next]_vars => Visiting'
<1> SUFFICES ASSUME Visiting, [Next]_vars PROVE BufferOrRefused'
    BY RunningNext DEF Visiting
<1>a. Reading /\ (pc \in {"encoded", "ready", "accepted"} => rest # {})
    BY DEF Visiting, Running, Reading, RunsOverRows
<1>b. ASSUME UNCHANGED <<current, encoded, rest, delivery>> PROVE BufferOrRefused'
    BY <1>b DEF Visiting, BufferOrRefused
<1>c. ASSUME Leave PROVE BufferOrRefused'
    BY <1>c DEF Leave, BufferOrRefused
<1>1. ASSUME NEW m \in Msgs, InsertDelivery(m) PROVE BufferOrRefused'
    <2>1. rest = {} /\ UNCHANGED <<current, encoded, rest>>
        BY <1>1, <1>a DEF InsertDelivery, Reading, RunsOverRows
    <2> QED BY <2>1 DEF Visiting, BufferOrRefused
<1>2. CASE (\E m \in Msgs : RemoveMessage(m)) \/ Cancel \/ UNCHANGED vars
    BY <1>2, <1>b DEF RemoveMessage, Cancel, vars, db
<1>3. CASE Start
    <2>1. current' = None /\ encoded' = None /\ rest' = Unsent /\ delivery' = delivery
        <3>1. current = None
            BY <1>3, <1>a DEF Start, Reading, RunsOverRows
        <3>2. encoded = None
            BY <3>1 DEF Visiting, BufferOrRefused
        <3> QED BY <1>3, <3>1, <3>2 DEF Start, db
    <2>2. \A s \in Unsent : s[1] # None /\ delivery[s] = "unsent"
        BY SlotParts, SenderAssumption DEF Unsent
    <2> QED BY <2>1, <2>2 DEF BufferOrRefused
<1>4. CASE NextRecipient
    BY <1>4, <1>c, VisitingLoad DEF NextRecipient
<1>5. CASE ThrowCanceled \/ Restart
    BY <1>5, <1>c DEF ThrowCanceled, Restart
<1>6. CASE GetPublicKey
    BY <1>6, <1>a, <1>b, VisitingMark DEF GetPublicKey, db
<1>7. CASE Post
    BY <1>7, <1>a, <1>b, <1>c, VisitingMark DEF Post, db
<1>8. CASE MarkAsDelivered
    BY <1>8, <1>a, VisitingMark DEF MarkAsDelivered, MarkAsFailed
<1> QED BY <1>1, <1>2, <1>3, <1>4, <1>5, <1>6, <1>7, <1>8 DEF Next, Run

-----------------------------------------------------------------------------
(* How often it arrives.  A row that is unsent, or not yet there, was posted*)
(* by runs only that were aborted, the one just accepted excepted.          *)

PostedByAborted ==
    \A s \in Slots :
        Shielded(s) /\ (delivery[s] = "unsent" \/ s[1] \notin stored) =>
            received[s] =< aborts \/ (pc = "accepted" /\ s = First)

Arriving == Visiting /\ AtMostOnce /\ PostedByAborted

LEMMA ArrivingInit == Init => Arriving
<1> SUFFICES ASSUME Init PROVE Arriving
    OBVIOUS
<1>1. \A s \in Slots : received[s] = 0
    BY DEF Init, Slots, Contents
<1>2. aborts = 0
    BY DEF Init
<1> QED BY <1>1, <1>2, VisitingInit DEF Arriving, AtMostOnce, PostedByAborted

LEMMA ReceivedIsNat ==
    ASSUME Visiting, NEW s \in Slots
    PROVE  received[s] \in Nat /\ aborts \in Nat
<1>1. s \in Contents \X Recipients
    BY DEF Slots, Contents
<1>2. received \in [Contents \X Recipients -> Nat] /\ aborts \in 0 .. MaxFaults
    BY DEF Visiting, Running, Reading, RowTypes, Control
<1> QED BY <1>1, <1>2, SenderAssumption

\* A post arrives for the row of the pass, or for a row that is not shielded from it.
LEMMA PostArrives ==
    ASSUME Arriving, pc = "ready", Arrive \/ MayArrive
    PROVE  /\ rest # {} /\ First \in Slots
           /\ \A t \in Slots : Shielded(t) /\ t # First => received'[t] = received[t]
           /\ Shielded(First) => /\ received'[First] \in Nat /\ received'[First] =< 1 + aborts
                                 /\ delivery[First] # "unsent" => received'[First] = received[First]
<1> DEFINE x == <<encoded, Rcpt>>
<1>1. rest # {} /\ current = First[1]
    BY DEF Arriving, Visiting, Running, Reading, RunsOverRows
<1>2. /\ First \in rest /\ First \in Slots /\ First[1] \in Msgs /\ First = <<First[1], Rcpt>>
      /\ First[2] \in Participants[First[1]] /\ Rcpt = First[2] /\ x \in Contents \X Recipients
    BY <1>1, FirstIsOpen DEF Arriving, Visiting, Running, Rcpt
<1>3. Slots \subseteq Contents \X Recipients /\ received \in [Contents \X Recipients -> Nat]
    BY DEF Slots, Contents, Arriving, Visiting, Running, Reading, RowTypes
<1>4. Arrive => received' = [received EXCEPT ![x] = received[x] + 1]
    BY Zenon DEF Arrive
<1>5. \A t \in Slots : t # x => received'[t] = received[t]
    BY <1>2, <1>3, <1>4 DEF MayArrive
<1>6. received[First] \in Nat /\ aborts \in Nat
    BY <1>2, ReceivedIsNat DEF Arriving
<1>7. CASE encoded = current
    <2>1. x = First
        BY <1>1, <1>2, <1>7, Zenon
    <2>2. delivery[First] = "unsent"
        BY <1>1, <1>2, <1>7 DEF Arriving, Visiting, BufferOrRefused
    <2>3. received'[First] = received[First] \/ received'[First] = received[First] + 1
        BY <1>2, <1>3, <1>4, <2>1 DEF MayArrive
    <2>4. Shielded(First) => received[First] =< aborts
        BY <1>2, <2>2 DEF Arriving, PostedByAborted
    <2> QED BY <1>1, <1>2, <1>5, <1>6, <2>1, <2>2, <2>3, <2>4
<1>8. CASE encoded # current
    <2>1. current \in Removable \cup Unencodable /\ \E q \in Participants[current] : q # First[2]
        BY <1>1, <1>2, <1>8 DEF Arriving, Visiting, BufferOrRefused
    <2>2. x # First
        BY <1>1, <1>2, <1>8
    <2>3. x \in Slots => ~Shielded(x)
        BY <1>1, <1>2, <1>8, <2>1 DEF Shielded
    <2>4. \A t \in Slots : Shielded(t) => received'[t] = received[t]
        BY <1>5, <2>3, Zenon
    <2>5. Shielded(First) => received[First] =< 1 + aborts
        BY <1>2 DEF Arriving, AtMostOnce
    <2> QED BY <1>1, <1>2, <1>6, <2>4, <2>5
<1> QED BY <1>7, <1>8

\* A run may end anywhere: if it was accepted, that is an abort.
LEMMA ArrivingLeave ==
    ASSUME Arriving, Leave, UNCHANGED <<db, received>>,
           aborts' = IF pc = "accepted" THEN aborts + 1 ELSE aborts
    PROVE  (AtMostOnce /\ PostedByAborted)'
<1>1. ASSUME NEW s \in Slots, Shielded(s)
      PROVE  /\ received'[s] =< 1 + aborts'
             /\ delivery'[s] = "unsent" \/ s[1] \notin stored' => received'[s] =< aborts'
    <2>1. received[s] \in Nat /\ aborts \in Nat /\ received[s] =< 1 + aborts
        BY <1>1, ReceivedIsNat DEF Arriving, AtMostOnce
    <2>2. delivery[s] = "unsent" \/ s[1] \notin stored => received[s] =< aborts \/ pc = "accepted"
        BY <1>1 DEF Arriving, PostedByAborted
    <2> QED BY <2>1, <2>2 DEF db
<1> QED BY <1>1 DEF AtMostOnce, PostedByAborted, Shielded

\* A pass that ends takes its row out of those that are unsent.
LEMMA ArrivingPass ==
    ASSUME Arriving, Passes, UNCHANGED aborts,
           \A t \in Slots : Shielded(t) /\ t # First => received'[t] = received[t],
           Shielded(First) => received'[First] =< 1 + aborts
    PROVE  (AtMostOnce /\ PostedByAborted)'
<1>1. PICK rows \in [Slots -> States] : Settled(rows) /\ Continue(rows) /\ rest # {}
    BY DEF Passes
<1>2. First \in Slots /\ First[1] \in stored
    BY <1>1, FirstIsOpen DEF Arriving, Visiting, Running
<1>3. /\ rows[First] # "unsent"
      /\ \A s \in Slots : rows[s] = delivery[s] \/ rows[s] = "absent" \/ s = First
    BY <1>1, SettledRow, Zenon DEF Arriving, Visiting, Running
<1>4. delivery' = rows /\ stored' = stored /\ pc' = "loop"
    BY <1>1 DEF Continue
<1>5. ASSUME NEW s \in Slots, Shielded(s), s # First
      PROVE  /\ received'[s] =< 1 + aborts'
             /\ delivery'[s] = "unsent" \/ s[1] \notin stored' => received'[s] =< aborts'
    BY <1>3, <1>4, <1>5 DEF Arriving, AtMostOnce, PostedByAborted
<1>6. AtMostOnce'
    BY <1>5 DEF AtMostOnce, Shielded
<1>7. PostedByAborted'
    BY <1>2, <1>3, <1>4, <1>5 DEF PostedByAborted, Shielded
<1> QED BY <1>6, <1>7

LEMMA ArrivingOthers ==
    ASSUME Arriving
    PROVE  /\ \A m \in Msgs : InsertDelivery(m) \/ RemoveMessage(m) =>
                  (AtMostOnce /\ PostedByAborted)'
           /\ Cancel \/ Start \/ UNCHANGED vars =>
                  (AtMostOnce /\ PostedByAborted)'
<1>1. ASSUME NEW m \in Msgs, InsertDelivery(m)
      PROVE  (AtMostOnce /\ PostedByAborted)'
    <2>1. pc = "idle" /\ pc' = "idle" /\ UNCHANGED <<received, aborts>> /\ stored' = stored \cup {m}
        BY <1>1 DEF InsertDelivery
    <2>2. ASSUME NEW s \in Slots
          PROVE  delivery'[s] = "unsent" \/ s[1] \notin stored' => delivery[s] = "unsent" \/ s[1] \notin stored
        BY <1>1 DEF InsertDelivery
    <2> QED BY <2>1, <2>2 DEF Arriving, AtMostOnce, PostedByAborted, Shielded
<1>2. ASSUME UNCHANGED <<delivery, stored, received, aborts>>,
             (pc' = pc /\ rest' = rest) \/ (pc' = "loop" /\ pc = "idle")
      PROVE  (AtMostOnce /\ PostedByAborted)'
    <2>1. rest' = rest => First' = First
        BY FirstStays
    <2>2. pc' = "accepted" => pc = "accepted" /\ First' = First
        BY <1>2, <2>1
    <2>3. pc = "accepted" => pc' = "accepted"
        BY <1>2
    <2> QED BY <1>2, <2>2, <2>3 DEF Arriving, AtMostOnce, PostedByAborted, Shielded
<1>3. ASSUME NEW m \in Msgs, RemoveMessage(m)
      PROVE  (AtMostOnce /\ PostedByAborted)'
    <2>1. UNCHANGED <<delivery, stored, received, aborts>> /\ (pc' = pc /\ rest' = rest)
        BY <1>3 DEF RemoveMessage
    <2> QED BY <1>2, <2>1, Zenon
<1>4. ASSUME Cancel \/ UNCHANGED vars
      PROVE  (AtMostOnce /\ PostedByAborted)'
    <2>1. UNCHANGED <<delivery, stored, received, aborts>> /\ (pc' = pc /\ rest' = rest)
        BY <1>4 DEF Cancel, vars, db
    <2> QED BY <1>2, <2>1, Zenon
<1>5. ASSUME Start
      PROVE  (AtMostOnce /\ PostedByAborted)'
    <2>1. UNCHANGED <<delivery, stored, received, aborts>> /\ (pc' = "loop" /\ pc = "idle")
        BY <1>5 DEF Start, db
    <2> QED BY <1>2, <2>1, Zenon
<1> QED BY <1>1, <1>3, <1>4, <1>5, Zenon

LEMMA ArrivingRun ==
    ASSUME Arriving, NextRecipient \/ ThrowCanceled \/ GetPublicKey \/ Post \/ MarkAsDelivered \/ Restart
    PROVE  (AtMostOnce /\ PostedByAborted)'
<1> DEFINE Good == AtMostOnce /\ PostedByAborted
<1>a. Reading /\ (pc \in {"encoded", "ready", "accepted"} => rest # {})
    BY DEF Arriving, Visiting, Running, Reading, RunsOverRows
<1>1. ASSUME Passes, UNCHANGED <<received, aborts>> PROVE Good'
    <2>1. rest # {}
        BY <1>1 DEF Passes
    <2>2. First \in Slots
        BY <1>a, <2>1, FirstIsOpen
    <2> QED BY <1>1, <2>2, ArrivingPass DEF Arriving, AtMostOnce
<1>2. ASSUME pc # "accepted", pc' # "accepted", UNCHANGED <<delivery, stored, received, aborts>> PROVE Good'
    BY <1>2 DEF Arriving, AtMostOnce, PostedByAborted, Shielded
<1>3. ASSUME pc # "accepted", Leave, UNCHANGED <<db, received, aborts>> PROVE Good'
    BY <1>3, ArrivingLeave
<1>4. ASSUME NextRecipient PROVE Good'
    <2>1. pc = "loop" /\ UNCHANGED <<received, aborts>>
        BY <1>4 DEF NextRecipient
    <2>2. Passes \/ (Leave /\ UNCHANGED db) \/ (pc' # "accepted" /\ UNCHANGED <<delivery, stored>>)
        BY <1>4, <1>a, StepsOfRun DEF Run, NextRecipient, Load, Leave, Continue, MarkAsFailed, Start, db
    <2> QED BY <1>1, <1>2, <1>3, <2>1, <2>2
<1>5. ASSUME ThrowCanceled PROVE Good'
    BY <1>3, <1>5 DEF ThrowCanceled
<1>6. ASSUME GetPublicKey PROVE Good'
    <2>1. pc = "encoded" /\ rest # {} /\ UNCHANGED <<received, aborts>>
        BY <1>6, <1>a DEF GetPublicKey
    <2>2. CASE pc' = "ready" /\ UNCHANGED db
        BY <1>2, <2>1, <2>2 DEF db
    <2>3. CASE MarkAsFailed("doesnt_exist") \/ MarkAsFailed("unknown")
        BY <1>1, <1>a, <2>1, <2>3, MarkPasses DEF Outcomes, States
    <2> QED BY <1>6, <2>2, <2>3 DEF GetPublicKey
<1>7. ASSUME Post PROVE Good'
    <2>1. pc = "ready" /\ rest # {}
        BY <1>7, <1>a DEF Post
    <2>2. CASE Arrive /\ pc' = "accepted" /\ UNCHANGED <<db, rest, aborts>>
        <3>1. First' = First
            BY <2>2, FirstStays
        <3>2. /\ First \in Slots
              /\ \A t \in Slots : Shielded(t) /\ t # First => received'[t] = received[t]
              /\ Shielded(First) => received'[First] =< 1 + aborts
            BY <2>1, <2>2, PostArrives
        <3>3. AtMostOnce'
            BY <2>2, <3>2 DEF Arriving, AtMostOnce, Shielded
        <3>4. PostedByAborted'
            BY <2>1, <2>2, <3>1, <3>2 DEF db, Arriving, PostedByAborted, Shielded
        <3> QED BY <3>3, <3>4
    <2>3. CASE MarkAsFailed("doesnt_exist") /\ UNCHANGED <<received, aborts>>
        BY <1>1, <1>a, <2>1, <2>3, MarkPasses DEF Outcomes, States
    <2>4. CASE MarkAsFailed("unknown") /\ MayArrive /\ UNCHANGED aborts
        <3>1. Passes
            BY <1>a, <2>1, <2>4, MarkPasses DEF Outcomes, States
        <3> QED BY <2>1, <2>4, <3>1, PostArrives, ArrivingPass
    <2>5. CASE Leave /\ MayArrive /\ aborts' = aborts + 1 /\ UNCHANGED db
        <3>1. ASSUME NEW s \in Slots, Shielded(s)
              PROVE  /\ received'[s] =< 1 + aborts'
                     /\ delivery'[s] = "unsent" \/ s[1] \notin stored' => received'[s] =< aborts'
            <4>1. received[s] \in Nat /\ aborts \in Nat /\ received[s] =< 1 + aborts
                BY <3>1, ReceivedIsNat DEF Arriving, AtMostOnce
            <4>2. /\ s = First => received'[First] =< 1 + aborts /\ received'[First] \in Nat
                  /\ s # First => received'[s] = received[s]
                BY <2>1, <2>5, <3>1, PostArrives
            <4> QED BY <2>5, <4>1, <4>2 DEF db
        <3> QED BY <2>5, <3>1 DEF AtMostOnce, PostedByAborted, Shielded
    <2> QED BY <1>7, <2>2, <2>3, <2>4, <2>5 DEF Post
<1>8. ASSUME MarkAsDelivered PROVE Good'
    <2>1. pc = "accepted" /\ rest # {} /\ MarkAsFailed("delivered") /\ UNCHANGED <<received, aborts>>
        BY <1>8, <1>a DEF MarkAsDelivered, MarkAsFailed
    <2> QED BY <1>1, <1>a, <2>1, MarkPasses DEF Outcomes, States
<1>9. ASSUME Restart PROVE Good'
    BY <1>9, ArrivingLeave DEF Restart
<1> QED BY <1>4, <1>5, <1>6, <1>7, <1>8, <1>9

LEMMA ArrivingNext == Arriving /\ [Next]_vars => Arriving'
<1> SUFFICES ASSUME Arriving, [Next]_vars PROVE Arriving'
    OBVIOUS
<1>1. Visiting'
    BY VisitingNext DEF Arriving
<1>2. (AtMostOnce /\ PostedByAborted)'
    BY ArrivingOthers, ArrivingRun DEF Next, Run
<1> QED BY <1>1, <1>2 DEF Arriving

\* A recipient gets a message twice only if a run ended between the post and the
\* mark: a lost answer alone never makes the sender post again.  This is said of the
\* rows that no refused message can put its buffer in the place of.
THEOREM AtMostOnceCorrect == Spec => []AtMostOnce
<1>1. Arriving => AtMostOnce
    BY DEF Arriving
<1> QED BY <1>1, ArrivingInit, ArrivingNext, PTL DEF Spec

-----------------------------------------------------------------------------
(* What "delivered" means.  A row that is there is posted with its message; *)
(* one that has gone with a removed message may be posted with another, but *)
(* then no outcome is entered.                                              *)

BufferFitsRow == \A s \in rest : s[1] = current /\ delivery[s] = "unsent" => encoded = current

AcceptedIfThere == pc = "accepted" /\ delivery[First] = "unsent" => received[First] > 0

RefusedHaveOne ==
    \A m \in Unencodable : \A q, r \in Participants[m] : q = r

Entering == RefusedHaveOne /\ Reading /\ BufferFitsRow /\ AcceptedIfThere /\ DeliveredWasReceived

LEMMA EnteringInit == Init /\ RefusedHaveOne => Entering
<1> SUFFICES ASSUME Init, RefusedHaveOne PROVE Entering
    OBVIOUS
<1>1. BufferFitsRow /\ AcceptedIfThere /\ DeliveredWasReceived
    BY DEF Init, BufferFitsRow, AcceptedIfThere, DeliveredWasReceived
<1> QED BY <1>1, ReadingInit DEF Entering

\* Only the row of an accepted post becomes "delivered".
LEMMA NewlyDelivered ==
    ASSUME Reading, [Next]_vars, NEW s \in Slots, delivery'[s] = "delivered", delivery[s] # "delivered"
    PROVE  pc = "accepted" /\ s = First /\ delivery[s] = "unsent"
<1>a. \A t \in Slots : RowGoesOneWay(t)
    BY ReadingNext
<1>0. delivery[s] = "unsent"
    BY <1>a DEF RowGoesOneWay
<1>b. ASSUME rest # {}, NEW state \in Outcomes \ {"delivered"}, MarkAsFailed(state) PROVE FALSE
    <2>1. First \in Slots /\ delivery \in [Slots -> States]
        BY <1>b, FirstIsOpen DEF Reading, RowTypes
    <2>2. delivery' = delivery \/ delivery' = [delivery EXCEPT ![First] = state]
        BY <1>b, <2>1 DEF MarkAsFailed, Continue, Marked
    <2> QED BY <1>0, <2>1, <2>2
<1>c. ASSUME UNCHANGED delivery PROVE FALSE
    BY <1>c
<1>d. pc \in {"encoded", "ready", "accepted"} => rest # {}
    BY DEF Reading, RunsOverRows
<1>1. ASSUME NEW m \in Msgs, InsertDelivery(m) PROVE FALSE
    BY <1>0, <1>1 DEF InsertDelivery
<1>2. CASE (\E m \in Msgs : RemoveMessage(m)) \/ Cancel \/ UNCHANGED vars \/ Start \/ ThrowCanceled \/ Restart
    BY <1>2, <1>c DEF RemoveMessage, Cancel, vars, Start, ThrowCanceled, Restart, db
<1>3. CASE NextRecipient
    <2>1. CASE First[1] \in removed
                 /\ Continue([t \in Slots |-> IF t[1] = First[1] THEN "absent" ELSE delivery[t]])
        <3>1. delivery'[s] = IF s[1] = First[1] THEN "absent" ELSE delivery[s]
            BY <2>1 DEF Continue
        <3> QED BY <1>0, <3>1
    <2>2. CASE rest # {} /\ MarkAsFailed("unknown")
        BY <1>b, <2>2 DEF Outcomes, States
    <2>3. CASE UNCHANGED db
        BY <1>c, <2>3 DEF db
    <2> QED BY <1>3, <2>1, <2>2, <2>3 DEF NextRecipient, Load
<1>4. CASE GetPublicKey \/ Post
    <2>1. CASE MarkAsFailed("doesnt_exist") \/ MarkAsFailed("unknown")
        BY <1>4, <1>b, <1>d, <2>1 DEF GetPublicKey, Post, Outcomes, States
    <2>2. CASE UNCHANGED db
        BY <1>c, <2>2 DEF db
    <2> QED BY <1>4, <2>1, <2>2 DEF GetPublicKey, Post
<1>5. CASE MarkAsDelivered
    <2>1. First \in Slots /\ delivery \in [Slots -> States] /\ pc = "accepted"
        BY <1>5, <1>d, FirstIsOpen DEF MarkAsDelivered, Reading, RowTypes
    <2>2. delivery' = delivery \/ delivery' = [delivery EXCEPT ![First] = "delivered"]
        BY <1>5 DEF MarkAsDelivered, Continue, Marked
    <2> QED BY <1>0, <2>1, <2>2
<1> QED BY <1>1, <1>2, <1>3, <1>4, <1>5 DEF Next, Run

LEMMA BufferStillFits ==
    ASSUME Entering, [Next]_vars
    PROVE  BufferFitsRow'
<1>a. Reading /\ Reading'
    BY ReadingNext DEF Entering
<1>b. ASSUME UNCHANGED <<current, encoded>>, rest' \subseteq rest,
             \A s \in rest' : delivery'[s] = "unsent" => delivery[s] = "unsent"
      PROVE  BufferFitsRow'
    BY <1>b DEF Entering, BufferFitsRow
<1>c. ASSUME Passes
      PROVE  /\ rest' = rest \ {First} /\ rest' \subseteq Slots
             /\ \A s \in rest' : delivery'[s] = "unsent" => delivery[s] = "unsent"
    <2>1. PICK rows \in [Slots -> States] : Settled(rows) /\ Continue(rows) /\ rest # {}
        BY <1>c DEF Passes
    <2>2. \A s \in Slots : rows[s] = delivery[s] \/ rows[s] = "absent" \/ s = First
        BY <1>a, <2>1, SettledRow, Zenon
    <2>3. delivery' = rows /\ rest' = rest \ {First} /\ rest' \subseteq Slots
        BY <1>a, <2>1 DEF Continue, Reading, RowTypes
    <2> QED BY <2>2, <2>3
<1>d. pc \in {"encoded", "ready", "accepted"} => rest # {} /\ pc # "idle"
    BY <1>a DEF Reading, RunsOverRows
<1>e. ASSUME UNCHANGED <<current, encoded, delivery>>, rest' \subseteq rest PROVE BufferFitsRow'
    BY <1>b, <1>e
<1>1. ASSUME NEW m \in Msgs, InsertDelivery(m) PROVE BufferFitsRow'
    BY <1>1, <1>a DEF InsertDelivery, Reading, RunsOverRows, BufferFitsRow
<1>2. CASE (\E m \in Msgs : RemoveMessage(m)) \/ Cancel \/ UNCHANGED vars
    BY <1>2, <1>e DEF RemoveMessage, Cancel, vars, db
<1>3. CASE Start
    <2>1. current' = None /\ rest' \subseteq Slots
        BY <1>3, <1>a DEF Start, Reading, RunsOverRows, RowTypes
    <2>2. \A s \in Slots : s[1] # None
        BY SlotParts, SenderAssumption
    <2> QED BY <2>1, <2>2 DEF BufferFitsRow
<1>4. CASE Leave
    BY <1>4 DEF Leave, BufferFitsRow
<1>5. CASE (NextRecipient /\ rest = {}) \/ ThrowCanceled \/ Restart
    BY <1>4, <1>5 DEF NextRecipient, ThrowCanceled, Restart
<1>6. CASE NextRecipient /\ rest # {}
    <2>0. pc = "loop" /\ Load /\ current' = First[1] /\ First \in rest /\ First \in Slots
        BY <1>6, <1>a, FirstIsOpen DEF NextRecipient, Load
    <2>1. CASE First[1] = current
        BY <1>e, <2>0, <2>1 DEF Load, db
    <2>2. CASE encoded' = First[1]
        BY <2>0, <2>2 DEF BufferFitsRow
    <2>3. CASE Continue([s \in Slots |-> IF s[1] = First[1] THEN "absent" ELSE delivery[s]])
        <3>1. /\ delivery' = [s \in Slots |-> IF s[1] = First[1] THEN "absent" ELSE delivery[s]]
              /\ rest' \subseteq Slots
            BY <1>a, <2>3 DEF Continue, Reading, RowTypes
        <3>2. \A s \in rest' : s[1] = First[1] => delivery'[s] = "absent"
            BY <3>1
        <3> QED BY <2>0, <3>2 DEF BufferFitsRow
    <2>4. CASE First[1] \in Unencodable /\ MarkAsFailed("unknown")
        <3>1. ASSUME NEW s \in rest', s[1] = First[1] PROVE FALSE
            <4>1. s \in rest /\ s # First /\ s \in Slots
                BY <1>a, <2>4 DEF MarkAsFailed, Continue, Reading, RowTypes
            <4>2. s[2] \in Participants[s[1]] /\ First[2] \in Participants[First[1]]
                BY <1>a, <2>0, <4>1 DEF Reading, RunsOverRows
            <4>3. s[2] = First[2]
                BY <2>4, <3>1, <4>2 DEF Entering, RefusedHaveOne
            <4>4. s = <<s[1], s[2]>> /\ First = <<First[1], First[2]>>
                BY <2>0, <4>1, SlotParts, Zenon
            <4> QED BY <3>1, <4>1, <4>3, <4>4, Zenon
        <3> QED BY <2>0, <3>1 DEF BufferFitsRow
    <2> QED BY <2>0, <2>1, <2>2, <2>3, <2>4 DEF Load
<1>7. CASE GetPublicKey \/ Post \/ MarkAsDelivered
    <2>1. CASE UNCHANGED <<current, encoded>>
        <3>1. CASE UNCHANGED <<delivery, rest>>
            BY <1>e, <2>1, <3>1
        <3>2. CASE Passes
            BY <1>b, <1>c, <2>1, <3>2
        <3> QED BY <1>7, <1>a, <1>d, <2>1, <3>1, <3>2, <1>4, StepsOfRun
               DEF Run, Start, GetPublicKey, Post, MarkAsDelivered
    <2> QED BY <1>4, <1>7, <2>1 DEF GetPublicKey, Post, MarkAsDelivered
<1> QED BY <1>1, <1>2, <1>3, <1>5, <1>6, <1>7 DEF Next, Run

LEMMA AcceptedStaysSo ==
    ASSUME Entering, [Next]_vars
    PROVE  AcceptedIfThere'
<1>a. Reading /\ (pc \in {"encoded", "ready", "accepted"} => rest # {} /\ current = First[1])
    BY DEF Entering, Reading, RunsOverRows
<1>1. CASE pc' # "accepted"
    BY <1>1 DEF AcceptedIfThere
<1>2. CASE pc' = "accepted" /\ Post
    <2>1. Arrive /\ UNCHANGED <<delivery, rest>> /\ pc = "ready" /\ rest # {}
        BY <1>2, <1>a DEF Post, MarkAsFailed, Continue, Leave, db
    <2>2. First' = First /\ First \in rest /\ First \in Slots /\ First = <<First[1], Rcpt>>
        BY <1>a, <2>1, FirstIsOpen, FirstStays
    <2>3. ASSUME delivery[First] = "unsent" PROVE received'[First] > 0
        <3>1. encoded = First[1]
            BY <1>a, <2>1, <2>2, <2>3 DEF Entering, BufferFitsRow
        <3>2. /\ <<encoded, Rcpt>> = First /\ First \in Contents \X Recipients
              /\ received \in [Contents \X Recipients -> Nat]
            BY <1>a, <2>2, <3>1 DEF Slots, Contents, Reading, RowTypes
        <3>3. received' = [received EXCEPT ![First] = received[First] + 1]
            BY <2>1, <3>2, Zenon DEF Arrive
        <3>4. received[First] \in Nat
            BY <3>2
        <3> QED BY <3>2, <3>3, <3>4
    <2> QED BY <2>1, <2>2, <2>3 DEF AcceptedIfThere
<1>3. CASE pc' = "accepted" /\ ~Post
    <2>1. UNCHANGED <<delivery, rest, pc, received>>
        <3>1. (\E m \in Msgs : RemoveMessage(m)) \/ Cancel \/ UNCHANGED vars
            <4>1. ~Run /\ ~Restart /\ ~\E m \in Msgs : InsertDelivery(m)
                BY <1>3 DEF Run, Start, NextRecipient, Load, ThrowCanceled, GetPublicKey, MarkAsDelivered,
                            MarkAsFailed, Continue, Restart, Leave, InsertDelivery
            <4> QED BY <4>1 DEF Next
        <3> QED BY <3>1 DEF RemoveMessage, Cancel, vars, db
    <2>2. First' = First
        BY <2>1, FirstStays
    <2> QED BY <2>1, <2>2 DEF Entering, AcceptedIfThere
<1> QED BY <1>1, <1>2, <1>3

LEMMA EnteringNext == Entering /\ [Next]_vars => Entering'
<1> SUFFICES ASSUME Entering, [Next]_vars PROVE Entering'
    OBVIOUS
<1>1. Reading'
    BY ReadingNext DEF Entering
<1>2. ASSUME NEW s \in Slots, delivery'[s] = "delivered" PROVE received'[s] > 0
    <2>1. received[s] \in Nat /\ received'[s] \in Nat /\ received[s] =< received'[s]
        BY CountsGrow DEF Entering
    <2>2. received[s] > 0
        <3>1. CASE delivery[s] = "delivered"
            BY <3>1 DEF Entering, DeliveredWasReceived
        <3>2. CASE delivery[s] # "delivered"
            BY <1>2, <3>2, NewlyDelivered DEF Entering, AcceptedIfThere
        <3> QED BY <3>1, <3>2
    <2> QED BY <2>1, <2>2
<1> QED BY <1>1, <1>2, BufferStillFits, AcceptedStaysSo DEF Entering, RefusedHaveOne, DeliveredWasReceived

\* "delivered" in the database means that the server of the recipient has the
\* message, whatever was lost, cancelled, removed or cut off by a crash, and
\* whoever else it was for, as long as the encoder refuses none for several.
THEOREM DeliveredWasReceivedCorrect == Spec /\ RefusedHaveOne => []DeliveredWasReceived
<1>1. Entering => DeliveredWasReceived
    BY DEF Entering
<1> QED BY <1>1, EnteringInit, EnteringNext, PTL DEF Spec

=============================================================================

-------------------------- MODULE LineWebhook_proofs --------------------------
(***************************************************************************)
(* Theorems of LineWebhook, for any number of sessions, users, customers,  *)
(* identities and deliveries of any events.                                *)
(***************************************************************************)
EXTENDS LineWebhook, FiniteSetTheorems, TLAPS

LEMMA NothingWritten == <<>> \in Writes /\ DOMAIN <<>> = {}
<1>1. DOMAIN <<>> = {}
  OBVIOUS
<1>2. <<>> \in [{} -> IdentityRows \cup {NoRow}]
  OBVIOUS
<1> QED BY <1>1, <1>2 DEF Writes

LEMMA WebhookShape ==
  ASSUME LineTypeOK, NEW s \in Sessions, tx[s].op = "webhook"
  PROVE  /\ tx[s] \in WebhookRequests /\ s \in Webhooks /\ tx[s] # Idle
         /\ tx[s].delivery \in Deliveries /\ tx[s].wrote \in Writes /\ Wrote(s) = tx[s].wrote
         /\ tx[s].next \in Nat /\ tx[s].next \in 1 .. Len(Events[tx[s].delivery]) + 1
         /\ tx[s].id \in IdentityIds \cup {NoId} /\ Len(Events[tx[s].delivery]) \in Nat
<1>1. tx[s] \in WebhookRequests /\ tx[s] # Idle
  BY DEF LineTypeOK, LinkRequests, Idle
<1>2. /\ tx[s].delivery \in Deliveries /\ tx[s].wrote \in Writes /\ tx[s].next \in Nat
      /\ tx[s].next \in 1 .. Len(Events[tx[s].delivery]) + 1
      /\ tx[s].id \in IdentityIds \cup {NoId}
  BY <1>1 DEF WebhookRequests
<1>3. Len(Events[tx[s].delivery]) \in Nat
  BY <1>2, LineAssumption
<1> QED BY <1>1, <1>2, <1>3 DEF LineTypeOK, Wrote

LEMMA AdminShape ==
  ASSUME LineTypeOK, NEW s \in Sessions, tx[s].op \notin {"webhook", "idle"}
  PROVE  /\ tx[s] \in LinkRequests /\ s \in Admins /\ tx[s].user \in LineUsers
         /\ Wrote(s) = <<>> /\ tx[s].op \in {"link", "linkNew", "unlink"}
<1>1. tx[s] \in LinkRequests
  BY DEF LineTypeOK, WebhookRequests, Idle
<1> QED BY <1>1 DEF LineTypeOK, LinkRequests, Wrote

LEMMA Numbers ==
  ASSUME LineTypeOK, NEW d \in Deliveries
  PROVE  /\ attempts[d] \in Nat /\ Attempts[d] \in Nat /\ attempts[d] <= Attempts[d]
         /\ \A i \in 1 .. Len(Events[d]) : stored[d][i] \in Nat
<1>1. attempts[d] \in Nat /\ Attempts[d] \in Nat /\ attempts[d] <= Attempts[d]
  BY LineAssumption DEF LineTypeOK
<1>2. stored[d] \in [1 .. Len(Events[d]) -> 0 .. Attempts[d]]
  BY DEF LineTypeOK
<1> QED BY <1>1, <1>2

(* What a session has written, and what it sees.                           *)
LEMMA WritesShape ==
  ASSUME LineTypeOK, NEW s \in Sessions
  PROVE  Wrote(s) \in Writes
<1>1. CASE tx[s].op = "webhook"
  BY <1>1, WebhookShape
<1>2. CASE tx[s].op # "webhook"
  BY <1>2, NothingWritten DEF Wrote
<1> QED BY <1>1, <1>2

LEMMA WrittenRows ==
  ASSUME NEW w \in Writes
  PROVE  /\ DOMAIN w \subseteq IdentityIds
         /\ \A i \in DOMAIN w : w[i] \in IdentityRows \cup {NoRow}
         /\ w \in [DOMAIN w -> IdentityRows \cup {NoRow}]
<1>1. PICK D \in SUBSET IdentityIds : w \in [D -> IdentityRows \cup {NoRow}]
  BY DEF Writes
<1> QED BY <1>1

LEMMA SeenShape ==
  ASSUME LineTypeOK, NEW s \in Sessions
  PROVE  /\ Seen(s) \in [IdentityIds -> IdentityRows \cup {NoRow}]
         /\ \A i \in DOMAIN Wrote(s) : Seen(s)[i] = Wrote(s)[i]
         /\ \A i \in IdentityIds \ DOMAIN Wrote(s) : Seen(s)[i] = identity[i]
<1>1. /\ DOMAIN Wrote(s) \subseteq IdentityIds
      /\ \A i \in DOMAIN Wrote(s) : Wrote(s)[i] \in IdentityRows \cup {NoRow}
  BY WritesShape, WrittenRows
<1> DEFINE w == Wrote(s)
<1> HIDE DEF w
<1>2. Seen(s) = [i \in IdentityIds |-> IF i \in DOMAIN w THEN w[i] ELSE identity[i]]
  BY DEF Seen, w
<1>3. /\ DOMAIN w \subseteq IdentityIds
      /\ \A i \in DOMAIN w : w[i] \in IdentityRows \cup {NoRow}
  BY <1>1 DEF w
<1>4. identity \in [IdentityIds -> IdentityRows \cup {NoRow}]
  BY DEF LineTypeOK
<1>5. /\ Seen(s) \in [IdentityIds -> IdentityRows \cup {NoRow}]
      /\ \A i \in DOMAIN w : Seen(s)[i] = w[i]
      /\ \A i \in IdentityIds \ DOMAIN w : Seen(s)[i] = identity[i]
  BY <1>2, <1>3, <1>4
<1> QED BY <1>5 DEF w

(* A row that is there has a user, and is not the missing row.             *)
LEMMA RowShape ==
  ASSUME NEW row \in IdentityRows
  PROVE  row # NoRow /\ row.user \in LineUsers
BY LineAssumption DEF IdentityRows, NoRow
-------------------------------------------------------------------------------
(* The part of the invariant that is about the table and what of it the    *)
(* transactions under way have written.                                    *)
TableInv ==
  UsersApart /\ WritesApart /\ InsertsNew /\ OneRowInSight /\ ReferencesHold

OthersStay(s) == \A t \in Sessions \ {s} : tx'[t] = tx[t]

LEMMA OthersWrote ==
  ASSUME NEW s \in Sessions, OthersStay(s), NEW t \in Sessions, t # s
  PROVE  Wrote(t)' = Wrote(t)
BY DEF OthersStay, Wrote

LEMMA OthersSee ==
  ASSUME NEW s \in Sessions, OthersStay(s), identity' = identity, NEW t \in Sessions, t # s
  PROVE  Seen(t)' = Seen(t) /\ \A u : Holds(t, u)' <=> Holds(t, u)
BY OthersWrote DEF Seen, Holds

LEMMA SameWritesSameSight ==
  ASSUME NEW s \in Sessions, identity' = identity, Wrote(s)' = Wrote(s)
  PROVE  Seen(s)' = Seen(s) /\ \A u : Holds(s, u)' <=> Holds(s, u)
BY DEF Seen, Holds

LEMMA NoWritesNoHold ==
  ASSUME NEW s \in Sessions, DOMAIN Wrote(s) = {}
  PROVE  ~\E u : Holds(s, u)
BY DEF Holds

(* Reading, waiting, and giving everything up.                             *)
LEMMA QuietTables ==
  ASSUME LineInv, LineTypeOK', NEW s \in Sessions, OthersStay(s), identity' = identity,
         \/ Wrote(s)' = Wrote(s)
         \/ DOMAIN Wrote(s)' = {} /\ tx'[s].op = "idle",
         \A i \in IdentityIds : Refers(s, i)' =>
           \/ Refers(s, i) /\ tx'[s].user = tx[s].user
           \/ Seen(s)[i] # NoRow /\ Seen(s)[i].user = tx'[s].user
  PROVE  TableInv'
<1>1. LineTypeOK /\ TableInv
  BY DEF LineInv, TableInv
<1>2. \A t \in Sessions : t # s =>
        Wrote(t)' = Wrote(t) /\ Seen(t)' = Seen(t) /\ \A u : Holds(t, u)' <=> Holds(t, u)
  BY OthersWrote, OthersSee
<1>3. CASE DOMAIN Wrote(s)' = {} /\ tx'[s].op = "idle"
  <2>1. \A u : ~Holds(s, u)'
    BY <1>3 DEF Holds
  <2>2. UsersApart'
    BY <1>1, <1>2, <2>1 DEF TableInv, UsersApart
  <2>3. WritesApart'
    <3> SUFFICES ASSUME NEW a \in Sessions, NEW b \in Sessions, a # b
                 PROVE  DOMAIN Wrote(a)' \cap DOMAIN Wrote(b)' = {}
      BY DEF WritesApart
    <3>1. CASE a = s \/ b = s
      BY <1>3, <3>1
    <3>2. CASE a # s /\ b # s
      BY <1>1, <1>2, <3>2 DEF TableInv, WritesApart
    <3> QED BY <3>1, <3>2
  <2>4. InsertsNew'
    <3> SUFFICES ASSUME NEW t \in Sessions, NEW i \in DOMAIN Wrote(t)', Wrote(t)'[i] # NoRow
                 PROVE  identity'[i] = NoRow /\ Wrote(t)'[i].customer = "null"
      BY DEF InsertsNew
    <3>1. t # s /\ Wrote(t)' = Wrote(t)
      BY <1>2, <1>3
    <3> QED BY <1>1, <3>1 DEF TableInv, InsertsNew
  <2>5. OneRowInSight'
    <3>1. \A u \in LineUsers : AtMostOne(identity', u)
      BY <1>1 DEF TableInv, OneRowInSight, AtMostOne, ActiveRows
    <3>2. \A i \in IdentityIds : Seen(s)'[i] = identity'[i]
      BY <1>3 DEF Seen
    <3>3. \A u \in LineUsers : AtMostOne(Seen(s)', u)
      BY <3>1, <3>2 DEF AtMostOne, ActiveRows
    <3>4. \A t \in Sessions \ {s}, u \in LineUsers : AtMostOne(Seen(t)', u)
      BY <1>1, <1>2 DEF TableInv, OneRowInSight
    <3> QED BY <3>1, <3>3, <3>4 DEF OneRowInSight, AtMostOne, ActiveRows
  <2>6. ReferencesHold'
    <3> SUFFICES ASSUME NEW t \in Sessions, NEW i \in IdentityIds, Refers(t, i)'
                 PROVE  /\ Seen(t)'[i] = NoRow \/ Seen(t)'[i].user = tx'[t].user
                        /\ \A o \in Sessions \ {t} : i \in DOMAIN Wrote(o)' => Wrote(o)'[i] = NoRow
      BY DEF ReferencesHold
    <3>1. t # s /\ Refers(t, i) /\ tx'[t] = tx[t]
      BY <1>3 DEF Refers, OthersStay
    <3>2. \A o \in Sessions : i \in DOMAIN Wrote(o)' => o # s /\ Wrote(o)' = Wrote(o)
      BY <1>2, <1>3
    <3> QED BY <1>1, <1>2, <3>1, <3>2 DEF TableInv, ReferencesHold
  <2> QED BY <2>2, <2>3, <2>4, <2>5, <2>6 DEF TableInv
<1>4. CASE Wrote(s)' = Wrote(s)
  <2>1. \A t \in Sessions :
          Wrote(t)' = Wrote(t) /\ Seen(t)' = Seen(t) /\ \A u : Holds(t, u)' <=> Holds(t, u)
    BY <1>2, <1>4, SameWritesSameSight
  <2>2. UsersApart'
    BY <1>1, <2>1 DEF TableInv, UsersApart
  <2>3. WritesApart'
    BY <1>1, <2>1 DEF TableInv, WritesApart
  <2>4. InsertsNew'
    BY <1>1, <2>1 DEF TableInv, InsertsNew
  <2>5. OneRowInSight'
    <3>1. \A u \in LineUsers : AtMostOne(identity', u)
      BY <1>1 DEF TableInv, OneRowInSight
    <3>2. \A t \in Sessions, u \in LineUsers : AtMostOne(Seen(t)', u)
      BY <1>1, <2>1 DEF TableInv, OneRowInSight
    <3> QED BY <3>1, <3>2 DEF OneRowInSight, AtMostOne, ActiveRows
  <2>6. ReferencesHold'
    <3> SUFFICES ASSUME NEW t \in Sessions, NEW i \in IdentityIds, Refers(t, i)'
                 PROVE  /\ Seen(t)'[i] = NoRow \/ Seen(t)'[i].user = tx'[t].user
                        /\ \A o \in Sessions \ {t} : i \in DOMAIN Wrote(o)' => Wrote(o)'[i] = NoRow
      BY DEF ReferencesHold
    <3>1. CASE Refers(t, i) /\ tx'[t].user = tx[t].user
      BY <1>1, <2>1, <3>1 DEF TableInv, ReferencesHold
    <3>2. CASE ~(Refers(t, i) /\ tx'[t].user = tx[t].user)
      <4>1. t = s /\ Seen(s)[i] # NoRow /\ Seen(s)[i].user = tx'[s].user
        BY <3>2 DEF OthersStay, Refers
      <4>2. ASSUME NEW o \in Sessions \ {s}, i \in DOMAIN Wrote(o) PROVE Wrote(o)[i] = NoRow
        <5>1. i \notin DOMAIN Wrote(s)
          BY <1>1, <4>2 DEF TableInv, WritesApart
        <5>2. identity[i] # NoRow
          BY <1>1, <4>1, <5>1, SeenShape
        <5> QED BY <1>1, <4>2, <5>2 DEF TableInv, InsertsNew
      <4> QED BY <2>1, <4>1, <4>2
    <3> QED BY <3>1, <3>2
  <2> QED BY <2>2, <2>3, <2>4, <2>5, <2>6 DEF TableInv
<1> QED BY <1>3, <1>4
-------------------------------------------------------------------------------
(* A session that writes a row of a user nobody else holds holds him now,  *)
(* and nobody else has written that row.                                   *)
LEMMA LocalWriteTables ==
  ASSUME LineInv, LineTypeOK', NEW s \in Sessions, OthersStay(s), identity' = identity,
         NEW i \in IdentityIds, NEW u \in LineUsers, Free(s, u),
         NEW row \in IdentityRows \cup {NoRow},
         Wrote(s)' = [j \in DOMAIN Wrote(s) \cup {i} |-> IF j = i THEN row ELSE Wrote(s)[j]],
         \A t \in Sessions \ {s} : i \notin DOMAIN Wrote(t),
         row # NoRow =>
           /\ row.user = u /\ row.customer = "null" /\ identity[i] = NoRow
           /\ ActiveRows(Seen(s), u) = {}
           /\ \A t \in Sessions \ {s} : ~Refers(t, i),
         identity[i] # NoRow =>
           identity[i].user = u \/ i \in DOMAIN Wrote(s),
         \A j \in IdentityIds : ~Refers(s, j)'
  PROVE  TableInv'
<1>1. LineTypeOK /\ TableInv
  BY DEF LineInv, TableInv
<1>2. \A t \in Sessions : t # s =>
        Wrote(t)' = Wrote(t) /\ Seen(t)' = Seen(t) /\ \A v : Holds(t, v)' <=> Holds(t, v)
  BY OthersWrote, OthersSee
<1>3. /\ DOMAIN Wrote(s)' = DOMAIN Wrote(s) \cup {i} /\ Wrote(s)'[i] = row
      /\ \A j \in DOMAIN Wrote(s) \ {i} : Wrote(s)'[j] = Wrote(s)[j]
  OBVIOUS
<1>4. /\ \A j \in IdentityIds \ {i} : Seen(s)'[j] = Seen(s)[j]
      /\ Seen(s)'[i] = row
  BY <1>3 DEF Seen
<1>5. ASSUME NEW v \in LineUsers, Holds(s, v)' PROVE v = u \/ Holds(s, v)
  <2>1. PICK j \in DOMAIN Wrote(s)' : v \in {Wrote(s)'[j].user, identity[j].user}
    BY <1>5 DEF Holds
  <2>2. CASE j # i
    BY <1>3, <2>1, <2>2 DEF Holds
  <2>3. CASE j = i
    <3>1. NoRow.user \notin LineUsers
      BY LineAssumption DEF NoRow
    <3> QED BY <1>3, <2>1, <2>3, <3>1 DEF Holds
  <2> QED BY <2>2, <2>3
<1>6. UsersApart'
  <2> SUFFICES ASSUME NEW a \in Sessions, NEW b \in Sessions, NEW v \in LineUsers,
                      Holds(a, v)', Holds(b, v)'
               PROVE  a = b
    BY DEF UsersApart
  <2>1. ASSUME NEW t \in Sessions \ {s}, Holds(t, v), Holds(s, v)' PROVE FALSE
    BY <1>1, <1>5, <2>1 DEF TableInv, UsersApart, Free
  <2>2. CASE a = s /\ b # s
    BY <1>2, <2>1, <2>2
  <2>3. CASE a # s /\ b = s
    BY <1>2, <2>1, <2>3
  <2>4. CASE a # s /\ b # s
    BY <1>1, <1>2, <2>4 DEF TableInv, UsersApart
  <2> QED BY <2>2, <2>3, <2>4
<1>7. WritesApart'
  <2> SUFFICES ASSUME NEW a \in Sessions, NEW b \in Sessions, a # b
               PROVE  DOMAIN Wrote(a)' \cap DOMAIN Wrote(b)' = {}
    BY DEF WritesApart
  <2>1. ASSUME NEW t \in Sessions \ {s}
        PROVE  DOMAIN Wrote(s)' \cap DOMAIN Wrote(t)' = {}
    <3>1. DOMAIN Wrote(t)' = DOMAIN Wrote(t) /\ i \notin DOMAIN Wrote(t)
      BY <1>2
    <3>2. DOMAIN Wrote(s) \cap DOMAIN Wrote(t) = {}
      BY <1>1 DEF TableInv, WritesApart
    <3> QED BY <1>3, <3>1, <3>2
  <2>2. CASE a # s /\ b # s
    BY <1>1, <1>2, <2>2 DEF TableInv, WritesApart
  <2> QED BY <2>1, <2>2
<1>8. InsertsNew'
  <2> SUFFICES ASSUME NEW t \in Sessions, NEW j \in DOMAIN Wrote(t)', Wrote(t)'[j] # NoRow
               PROVE  identity[j] = NoRow /\ Wrote(t)'[j].customer = "null"
    BY DEF InsertsNew
  <2>1. CASE t # s
    BY <1>1, <1>2, <2>1 DEF TableInv, InsertsNew
  <2>2. CASE t = s /\ j # i
    BY <1>1, <1>3, <2>2 DEF TableInv, InsertsNew
  <2>3. CASE t = s /\ j = i
    BY <1>3, <2>3
  <2> QED BY <2>1, <2>2, <2>3
<1>9. OneRowInSight'
  <2>1. \A v \in LineUsers : AtMostOne(identity', v)
    BY <1>1 DEF TableInv, OneRowInSight
  <2>2. \A t \in Sessions \ {s}, v \in LineUsers : AtMostOne(Seen(t)', v)
    BY <1>1, <1>2 DEF TableInv, OneRowInSight
  <2>3. ASSUME NEW v \in LineUsers, NEW j \in ActiveRows(Seen(s)', v), NEW k \in ActiveRows(Seen(s)', v)
        PROVE  j = k
    <3>1. \A m \in ActiveRows(Seen(s)', v) :
            \/ m = i /\ row # NoRow /\ v = u
            \/ m # i /\ m \in ActiveRows(Seen(s), v)
      BY <1>4 DEF ActiveRows
    <3>2. \A m, n \in ActiveRows(Seen(s), v) : m = n
      BY <1>1 DEF TableInv, OneRowInSight, AtMostOne
    <3> QED BY <2>3, <3>1, <3>2
  <2> QED BY <2>1, <2>2, <2>3 DEF OneRowInSight, AtMostOne, ActiveRows
<1>10. ReferencesHold'
  <2> SUFFICES ASSUME NEW t \in Sessions, NEW j \in IdentityIds, Refers(t, j)'
               PROVE  /\ Seen(t)'[j] = NoRow \/ Seen(t)'[j].user = tx'[t].user
                      /\ \A o \in Sessions \ {t} : j \in DOMAIN Wrote(o)' => Wrote(o)'[j] = NoRow
    BY DEF ReferencesHold
  <2>1. t # s /\ Refers(t, j) /\ tx'[t] = tx[t]
    BY DEF OthersStay, Refers
  <2>2. Seen(t)'[j] = NoRow \/ Seen(t)'[j].user = tx'[t].user
    BY <1>1, <1>2, <2>1 DEF TableInv, ReferencesHold
  <2>3. ASSUME NEW o \in Sessions \ {t}, j \in DOMAIN Wrote(o)' PROVE Wrote(o)'[j] = NoRow
    <3>1. CASE o # s
      BY <1>1, <1>2, <2>1, <2>3, <3>1 DEF TableInv, ReferencesHold
    <3>2. CASE o = s /\ j # i
      BY <1>1, <1>3, <2>1, <2>3, <3>2 DEF TableInv, ReferencesHold
    <3>3. CASE o = s /\ j = i
      BY <1>3, <2>1, <3>3
    <3> QED BY <3>1, <3>2, <3>3
  <2> QED BY <2>2, <2>3
<1> QED BY <1>6, <1>7, <1>8, <1>9, <1>10 DEF TableInv
-------------------------------------------------------------------------------
(* What a COMMIT does to the sight of the others: the rows it changes are  *)
(* of users they do not hold, and not theirs.                              *)
LEMMA CommitTables ==
  ASSUME LineInv, LineTypeOK', NEW s \in Sessions, OthersStay(s), identity' = Seen(s),
         tx'[s].op = "idle"
  PROVE  TableInv'
<1>1. LineTypeOK /\ TableInv
  BY DEF LineInv, TableInv
<1>2. Wrote(s)' = <<>> /\ DOMAIN Wrote(s)' = {} /\ \A i \in IdentityIds : ~Refers(s, i)'
  BY DEF Wrote, Refers
<1>3. \A t \in Sessions : t # s => Wrote(t)' = Wrote(t)
  BY OthersWrote
<1>4. ASSUME NEW t \in Sessions, t # s, NEW i \in DOMAIN Wrote(t)
      PROVE  identity'[i] = identity[i] /\ i \notin DOMAIN Wrote(s) /\ i \in IdentityIds
  <2>1. i \notin DOMAIN Wrote(s)
    BY <1>1, <1>4 DEF TableInv, WritesApart
  <2>2. i \in IdentityIds
    BY <1>1, WritesShape, WrittenRows
  <2> QED BY <1>1, <2>1, <2>2, SeenShape
<1>5. \A t \in Sessions : t # s => \A u : Holds(t, u)' <=> Holds(t, u)
  BY <1>3, <1>4 DEF Holds
<1>6. \A u : ~Holds(s, u)'
  BY <1>2 DEF Holds
<1>7. UsersApart'
  BY <1>1, <1>5, <1>6 DEF TableInv, UsersApart
<1>8. WritesApart'
  <2> SUFFICES ASSUME NEW a \in Sessions, NEW b \in Sessions, a # b
               PROVE  DOMAIN Wrote(a)' \cap DOMAIN Wrote(b)' = {}
    BY DEF WritesApart
  <2>1. CASE a = s \/ b = s
    BY <1>2, <2>1
  <2>2. CASE a # s /\ b # s
    BY <1>1, <1>3, <2>2 DEF TableInv, WritesApart
  <2> QED BY <2>1, <2>2
<1>9. InsertsNew'
  <2> SUFFICES ASSUME NEW t \in Sessions, NEW i \in DOMAIN Wrote(t)', Wrote(t)'[i] # NoRow
               PROVE  identity'[i] = NoRow /\ Wrote(t)'[i].customer = "null"
    BY DEF InsertsNew
  <2>1. t # s /\ Wrote(t)' = Wrote(t)
    BY <1>2, <1>3
  <2> QED BY <1>1, <1>4, <2>1 DEF TableInv, InsertsNew
<1>10. \A u \in LineUsers : AtMostOne(identity', u)
  BY <1>1 DEF TableInv, OneRowInSight
<1>11. ASSUME NEW t \in Sessions, t # s, NEW i \in IdentityIds
       PROVE  Seen(t)'[i] = IF i \in DOMAIN Wrote(t) THEN Seen(t)[i] ELSE identity'[i]
  <2>1. Seen(t)'[i] = IF i \in DOMAIN Wrote(t) THEN Wrote(t)[i] ELSE identity'[i]
    BY <1>3, <1>11 DEF Seen
  <2> QED BY <1>1, <1>11, <2>1, SeenShape
<1>12. ASSUME NEW t \in Sessions, t # s, NEW u \in LineUsers
       PROVE  AtMostOne(Seen(t)', u)
  <2>1. \A a, b \in ActiveRows(Seen(t), u) : a = b
    BY <1>1, <1>12 DEF TableInv, OneRowInSight, AtMostOne
  <2>2. \A a, b \in ActiveRows(identity', u) : a = b
    BY <1>10 DEF AtMostOne
  <2>3. CASE Holds(t, u)
    <3>1. ~Holds(s, u)
      BY <1>1, <1>12, <2>3 DEF TableInv, UsersApart
    <3>2. ASSUME NEW i \in ActiveRows(Seen(t)', u) PROVE i \in ActiveRows(Seen(t), u)
      <4>1. i \in IdentityIds
        BY DEF ActiveRows
      <4>2. CASE i \in DOMAIN Wrote(t)
        BY <1>11, <1>12, <3>2, <4>2 DEF ActiveRows
      <4>3. CASE i \notin DOMAIN Wrote(t)
        <5>1. identity'[i] # NoRow /\ identity'[i].user = u
          BY <1>11, <1>12, <3>2, <4>1, <4>3 DEF ActiveRows
        <5>2. i \notin DOMAIN Wrote(s)
          BY <1>1, <3>1, <5>1, SeenShape DEF Holds
        <5>3. identity'[i] = identity[i] /\ Seen(t)[i] = identity[i]
          BY <1>1, <1>12, <4>1, <4>3, <5>2, SeenShape
        <5> QED BY <4>1, <5>1, <5>3 DEF ActiveRows
      <4> QED BY <4>2, <4>3
    <3> QED BY <2>1, <3>2 DEF AtMostOne
  <2>4. CASE ~Holds(t, u)
    <3>1. ASSUME NEW i \in ActiveRows(Seen(t)', u) PROVE i \in ActiveRows(identity', u)
      <4>1. i \in IdentityIds
        BY DEF ActiveRows
      <4>2. i \notin DOMAIN Wrote(t)
        <5>1. SUFFICES ASSUME i \in DOMAIN Wrote(t) PROVE FALSE
          OBVIOUS
        <5>2. Seen(t)'[i] = Wrote(t)[i]
          BY <1>3, <1>12, <4>1, <5>1 DEF Seen
        <5>3. Wrote(t)[i].user = u
          BY <3>1, <5>2 DEF ActiveRows
        <5> QED BY <2>4, <5>1, <5>3 DEF Holds
      <4> QED BY <1>11, <1>12, <3>1, <4>1, <4>2 DEF ActiveRows
    <3> QED BY <2>2, <3>1 DEF AtMostOne
  <2> QED BY <2>3, <2>4
<1>13. OneRowInSight'
  <2>1. \A i \in IdentityIds : Seen(s)'[i] = identity'[i]
    BY <1>2 DEF Seen
  <2>2. \A u \in LineUsers : AtMostOne(Seen(s)', u)
    BY <1>10, <2>1 DEF AtMostOne, ActiveRows
  <2> QED BY <1>10, <1>12, <2>2 DEF OneRowInSight, AtMostOne, ActiveRows
<1>14. ReferencesHold'
  <2> SUFFICES ASSUME NEW t \in Sessions, NEW i \in IdentityIds, Refers(t, i)'
               PROVE  /\ Seen(t)'[i] = NoRow \/ Seen(t)'[i].user = tx'[t].user
                      /\ \A o \in Sessions \ {t} : i \in DOMAIN Wrote(o)' => Wrote(o)'[i] = NoRow
    BY DEF ReferencesHold
  <2>1. t # s /\ Refers(t, i) /\ tx'[t] = tx[t]
    BY <1>2 DEF OthersStay, Refers
  <2>2. \A o \in Sessions \ {t} : i \in DOMAIN Wrote(o)' => Wrote(o)'[i] = NoRow
    BY <1>1, <1>2, <1>3, <2>1 DEF TableInv, ReferencesHold
  <2>3. Seen(t)[i] = NoRow \/ Seen(t)[i].user = tx[t].user
    BY <1>1, <2>1 DEF TableInv, ReferencesHold
  <2>4. i \in DOMAIN Wrote(s) => Wrote(s)[i] = NoRow
    BY <1>1, <2>1 DEF TableInv, ReferencesHold
  <2>5. CASE i \in DOMAIN Wrote(t)
    BY <1>11, <2>1, <2>2, <2>3, <2>5
  <2>6. CASE i \notin DOMAIN Wrote(t)
    <3>1. Seen(t)'[i] = identity'[i] /\ Seen(t)[i] = identity[i]
      BY <1>1, <1>11, <2>1, <2>6, SeenShape
    <3>2. identity'[i] = NoRow \/ identity'[i] = identity[i]
      BY <1>1, <2>4, SeenShape
    <3> QED BY <2>1, <2>2, <2>3, <3>1, <3>2
  <2> QED BY <2>5, <2>6
<1> QED BY <1>7, <1>8, <1>9, <1>13, <1>14 DEF TableInv
-------------------------------------------------------------------------------
(* An administrator changes, inserts or unlinks one row, which no webhook  *)
(* has written.                                                            *)
LEMMA AdminWriteTables ==
  ASSUME LineInv, LineTypeOK', NEW s \in Sessions, OthersStay(s), tx'[s].op = "idle",
         Wrote(s) = <<>>, NEW i \in IdentityIds, NEW row \in IdentityRows \cup {NoRow},
         identity' = [identity EXCEPT ![i] = row],
         \A t \in Sessions : i \notin DOMAIN Wrote(t),
         \/ row = NoRow
         \/ row # NoRow /\ identity[i] # NoRow /\ row.user = identity[i].user
         \/ /\ row # NoRow /\ Free(s, row.user) /\ ActiveRows(identity, row.user) = {}
            /\ identity[i] = NoRow /\ \A t \in Sessions : ~Refers(t, i)
  PROVE  TableInv'
<1>1. LineTypeOK /\ TableInv
  BY DEF LineInv, TableInv
<1>2. Wrote(s)' = <<>> /\ DOMAIN Wrote(s)' = {} /\ \A j \in IdentityIds : ~Refers(s, j)'
  BY DEF Wrote, Refers
<1>3. \A t \in Sessions : Wrote(t)' = Wrote(t)
  BY <1>2, OthersWrote
<1>4. identity'[i] = row /\ \A j \in IdentityIds \ {i} : identity'[j] = identity[j]
  BY <1>1 DEF LineTypeOK
<1>5. ASSUME NEW t \in Sessions, NEW j \in DOMAIN Wrote(t)
      PROVE  identity'[j] = identity[j]
  <2>1. j \in IdentityIds /\ j # i
    BY <1>1, WritesShape, WrittenRows
  <2> QED BY <1>4, <2>1
<1>6. \A t \in Sessions : \A u : Holds(t, u)' <=> Holds(t, u)
  BY <1>3, <1>5 DEF Holds
<1>7. UsersApart'
  BY <1>1, <1>6 DEF TableInv, UsersApart
<1>8. WritesApart'
  BY <1>1, <1>3 DEF TableInv, WritesApart
<1>9. InsertsNew'
  BY <1>1, <1>3, <1>5 DEF TableInv, InsertsNew
<1>10. ASSUME NEW t \in Sessions
       PROVE  /\ Seen(t)'[i] = row /\ Seen(t)[i] = identity[i]
              /\ \A j \in IdentityIds \ {i} : Seen(t)'[j] = Seen(t)[j]
  <2>1. \A j \in IdentityIds :
          Seen(t)'[j] = IF j \in DOMAIN Wrote(t) THEN Wrote(t)[j] ELSE identity'[j]
    BY <1>3 DEF Seen
  <2> QED BY <1>1, <1>4, <2>1, SeenShape
<1>11. ASSUME NEW T, NEW T2, NEW u \in LineUsers, AtMostOne(T, u),
              T2[i] = row, T[i] = identity[i],
              \A j \in IdentityIds \ {i} : T2[j] = T[j],
              row # NoRow /\ identity[i] = NoRow /\ row.user = u => ActiveRows(T, u) = {}
       PROVE  AtMostOne(T2, u)
  <2> SUFFICES ASSUME NEW a \in ActiveRows(T2, u), NEW b \in ActiveRows(T2, u) PROVE a = b
    BY DEF AtMostOne
  <2>1. \A c, d \in ActiveRows(T, u) : c = d
    BY <1>11 DEF AtMostOne
  <2>2. CASE row = NoRow \/ row.user # u
    BY <1>11, <2>1, <2>2 DEF ActiveRows
  <2>3. CASE row # NoRow /\ row.user = u /\ identity[i] # NoRow
    <3>1. a \in ActiveRows(T, u) /\ b \in ActiveRows(T, u)
      BY <1>11, <2>3 DEF ActiveRows
    <3> QED BY <2>1, <3>1
  <2>4. CASE row # NoRow /\ row.user = u /\ identity[i] = NoRow
    BY <1>11, <2>4 DEF ActiveRows
  <2> QED BY <2>2, <2>3, <2>4
<1>12. row # NoRow /\ identity[i] = NoRow =>
         Free(s, row.user) /\ ActiveRows(identity, row.user) = {}
  OBVIOUS
<1>13. \A u \in LineUsers : AtMostOne(identity', u)
  <2> SUFFICES ASSUME NEW u \in LineUsers PROVE AtMostOne(identity', u)
    OBVIOUS
  <2>1. AtMostOne(identity, u)
    BY <1>1 DEF TableInv, OneRowInSight
  <2> QED BY <1>4, <1>11, <1>12, <2>1
<1>14. \A t \in Sessions, u \in LineUsers : AtMostOne(Seen(t)', u)
  <2> SUFFICES ASSUME NEW t \in Sessions, NEW u \in LineUsers PROVE AtMostOne(Seen(t)', u)
    OBVIOUS
  <2>1. AtMostOne(Seen(t), u)
    BY <1>1 DEF TableInv, OneRowInSight
  <2>2. row # NoRow /\ identity[i] = NoRow /\ row.user = u => ActiveRows(Seen(t), u) = {}
    <3> SUFFICES ASSUME row # NoRow, identity[i] = NoRow, row.user = u,
                        NEW j \in ActiveRows(Seen(t), u)
                 PROVE  FALSE
      OBVIOUS
    <3>1. ~Holds(t, u)
      <4>1. CASE t = s
        BY <4>1, NoWritesNoHold
      <4>2. CASE t # s
        BY <1>12, <4>2 DEF Free
      <4> QED BY <4>1, <4>2
    <3>2. j \in IdentityIds /\ Seen(t)[j] # NoRow /\ Seen(t)[j].user = u
      BY DEF ActiveRows
    <3>3. j \notin DOMAIN Wrote(t)
      BY <1>1, <3>1, <3>2, SeenShape DEF Holds
    <3>4. identity[j] = Seen(t)[j]
      BY <1>1, <3>2, <3>3, SeenShape
    <3> QED BY <1>12, <3>2, <3>4 DEF ActiveRows
  <2> QED BY <1>10, <1>11, <2>1, <2>2
<1>15. OneRowInSight'
  BY <1>13, <1>14 DEF OneRowInSight, AtMostOne, ActiveRows
<1>16. ReferencesHold'
  <2> SUFFICES ASSUME NEW t \in Sessions, NEW j \in IdentityIds, Refers(t, j)'
               PROVE  /\ Seen(t)'[j] = NoRow \/ Seen(t)'[j].user = tx'[t].user
                      /\ \A o \in Sessions \ {t} : j \in DOMAIN Wrote(o)' => Wrote(o)'[j] = NoRow
    BY DEF ReferencesHold
  <2>1. t # s /\ Refers(t, j) /\ tx'[t] = tx[t]
    BY <1>2 DEF OthersStay, Refers
  <2>2. /\ \A o \in Sessions \ {t} : j \in DOMAIN Wrote(o)' => Wrote(o)'[j] = NoRow
        /\ Seen(t)[j] = NoRow \/ Seen(t)[j].user = tx[t].user
    BY <1>1, <1>3, <2>1 DEF TableInv, ReferencesHold
  <2>3. CASE j # i
    BY <1>10, <2>1, <2>2, <2>3
  <2>4. CASE j = i
    BY <1>10, <2>1, <2>2, <2>4
  <2> QED BY <2>3, <2>4
<1> QED BY <1>7, <1>8, <1>9, <1>15, <1>16 DEF TableInv
-------------------------------------------------------------------------------
(* What a step makes of the request of its session.                        *)
Becomes(s, q) == tx' = [tx EXCEPT ![s] = q]

LEMMA BecomesShape ==
  ASSUME LineTypeOK, NEW s \in Sessions, NEW q, Becomes(s, q),
         q \in WebhookRequests \cup LinkRequests \cup {Idle},
         q.op = "webhook" => s \in Webhooks, q.op \notin {"webhook", "idle"} => s \in Admins
  PROVE  /\ tx'[s] = q /\ OthersStay(s)
         /\ tx' \in [Sessions -> WebhookRequests \cup LinkRequests \cup {Idle}]
         /\ \A t \in Sessions : tx'[t].op = "webhook" => t \in Webhooks
         /\ \A t \in Sessions : tx'[t].op \notin {"webhook", "idle"} => t \in Admins
<1>1. tx'[s] = q /\ OthersStay(s)
  BY DEF LineTypeOK, Becomes, OthersStay
<1>2. tx' \in [Sessions -> WebhookRequests \cup LinkRequests \cup {Idle}]
  BY DEF LineTypeOK, Becomes
<1> QED BY <1>1, <1>2 DEF LineTypeOK, OthersStay

LEMMA IdleShape == Idle.op = "idle"
BY DEF Idle

LEMMA EventDoneShape ==
  ASSUME LineTypeOK, NEW s \in Sessions, tx[s].op = "webhook", MoreEvents(s),
         NEW w \in Writes, EventDone(s, w)
  PROVE  \E q : /\ Becomes(s, q) /\ q \in WebhookRequests /\ q.op = "webhook" /\ q.at = "event"
                /\ q.delivery = tx[s].delivery /\ q.wrote = w /\ q.id = NoId
<1> DEFINE n == tx[s].next + 1  q == WebhookRequest(tx[s].delivery, n, "event", "none", NoId, w)
<1>1. tx[s].delivery \in Deliveries /\ n \in Nat /\ n \in 1 .. Len(Events[tx[s].delivery]) + 1
  BY WebhookShape DEF MoreEvents
<1>2. Becomes(s, q)
  BY DEF EventDone, Becomes
<1>3. /\ q \in WebhookRequests /\ q.op = "webhook" /\ q.at = "event"
      /\ q.delivery = tx[s].delivery /\ q.wrote = w /\ q.id = NoId
  <2> HIDE DEF n
  <2> QED BY <1>1 DEF WebhookRequests, WebhookRequest
<1> QED BY <1>2, <1>3

(* Steps that record nothing.                                              *)
LEMMA CountKept ==
  ASSUME LineInv, NEW s \in Sessions, OthersStay(s), UNCHANGED <<stored, attempts>>,
         tx'[s].op = "webhook" => tx[s].op = "webhook" /\ tx'[s].delivery = tx[s].delivery
  PROVE  DeliveriesCounted'
<1> SUFFICES ASSUME NEW d \in Deliveries, NEW i \in 1 .. Len(Events[d])
             PROVE  stored[d][i] + Cardinality(Delivering(d)') <= attempts[d]
  BY DEF DeliveriesCounted
<1>1. Delivering(d)' \subseteq Delivering(d)
  BY DEF Delivering, OthersStay, Sessions
<1>2. IsFiniteSet(Delivering(d))
  BY LineAssumption, FS_Subset DEF Delivering, Sessions
<1>3. IsFiniteSet(Delivering(d)') /\ Cardinality(Delivering(d)') <= Cardinality(Delivering(d))
  BY <1>1, <1>2, FS_Subset
<1>4. Cardinality(Delivering(d)') \in Nat /\ Cardinality(Delivering(d)) \in Nat
  BY <1>2, <1>3, FS_CardinalityType
<1>5. stored[d][i] \in Nat /\ attempts[d] \in Nat
  BY LineAssumption DEF LineInv, LineTypeOK
<1>6. stored[d][i] + Cardinality(Delivering(d)) <= attempts[d]
  BY DEF LineInv, DeliveriesCounted
<1> QED BY <1>3, <1>4, <1>5, <1>6

LEMMA EventsOfOthersKept ==
  ASSUME LineInv, NEW s \in Sessions, OthersStay(s),
         tx'[s].op = "webhook" /\ tx'[s].at # "event" =>
           /\ MoreEvents(s)' /\ tx'[s].user = Event(s)'.user
           /\ tx'[s].at = "unlink" => tx'[s].id \in IdentityIds
  PROVE  EventsKept'
BY DEF LineInv, EventsKept, OthersStay, MoreEvents, Event

(* A step that goes on to q, records nothing and leaves the table alone,   *)
(* but may write rows of its own.                                          *)
LEMMA RequestKept ==
  ASSUME LineInv, NEW s \in Sessions, NEW q, Becomes(s, q),
         UNCHANGED <<identity, stored, attempts>>,
         q \in WebhookRequests \cup LinkRequests \cup {Idle},
         q.op = "webhook" =>
           /\ tx[s].op = "webhook" /\ q.delivery = tx[s].delivery
           /\ q.at # "event" =>
                /\ q.next <= Len(Events[q.delivery]) /\ q.user = Events[q.delivery][q.next].user
                /\ q.at = "unlink" => q.id \in IdentityIds,
         q.op \notin {"webhook", "idle"} => s \in Admins
  PROVE  LineTypeOK' /\ DeliveriesCounted' /\ EventsKept' /\ tx'[s] = q /\ OthersStay(s)
<1>1. LineTypeOK /\ (q.op = "webhook" => s \in Webhooks)
  BY DEF LineInv, LineTypeOK
<1>2. /\ tx'[s] = q /\ OthersStay(s)
      /\ tx' \in [Sessions -> WebhookRequests \cup LinkRequests \cup {Idle}]
      /\ \A t \in Sessions : tx'[t].op = "webhook" => t \in Webhooks
      /\ \A t \in Sessions : tx'[t].op \notin {"webhook", "idle"} => t \in Admins
  BY <1>1, BecomesShape
<1>3. LineTypeOK'
  BY <1>1, <1>2 DEF LineTypeOK
<1>4. DeliveriesCounted'
  BY <1>2, CountKept
<1>5. EventsKept'
  BY <1>2, EventsOfOthersKept DEF MoreEvents, Event
<1> QED BY <1>2, <1>3, <1>4, <1>5
-------------------------------------------------------------------------------
LEMMA LayersMakeInvariant ==
  ASSUME LineTypeOK', DeliveriesCounted', EventsKept', TableInv'
  PROVE  LineInv'
BY DEF LineInv, TableInv

LEMMA ReplyKeepsInvariant ==
  ASSUME LineInv, NEW s \in Sessions, Reply(s), UNCHANGED <<identity, stored, attempts>>
  PROVE  LineInv'
<1>1. Becomes(s, Idle)
  BY DEF Reply, Becomes
<1>2. LineTypeOK' /\ DeliveriesCounted' /\ EventsKept' /\ tx'[s] = Idle /\ OthersStay(s)
  BY <1>1, IdleShape, RequestKept
<1>3. tx'[s].op = "idle" /\ DOMAIN Wrote(s)' = {}
  BY <1>2, IdleShape, NothingWritten DEF Wrote
<1>4. \A i \in IdentityIds : ~Refers(s, i)'
  BY <1>3 DEF Refers
<1>5. TableInv'
  BY <1>2, <1>3, <1>4, QuietTables
<1> QED BY <1>2, <1>5, LayersMakeInvariant

LEMMA ElementInSet ==
  ASSUME NEW S, NEW q \in Seq(S), NEW n \in 1 .. Len(q)
  PROVE  q[n] \in S
OBVIOUS

LEMMA EventShape ==
  ASSUME LineTypeOK, NEW s \in Sessions, tx[s].op = "webhook", MoreEvents(s)
  PROVE  Event(s).user \in LineUsers /\ Event(s) = Events[tx[s].delivery][tx[s].next]
<1>1. /\ tx[s].delivery \in Deliveries /\ tx[s].next \in 1 .. Len(Events[tx[s].delivery])
  BY WebhookShape DEF MoreEvents
<1>2. Events[tx[s].delivery] \in Seq([type : EventTypes, user : LineUsers])
  BY <1>1, LineAssumption
<1>3. Events[tx[s].delivery][tx[s].next] \in [type : EventTypes, user : LineUsers]
  <2> DEFINE S == [type : EventTypes, user : LineUsers]
  <2> HIDE DEF S
  <2>1. Events[tx[s].delivery] \in Seq(S)
    BY <1>2 DEF S
  <2>2. Events[tx[s].delivery][tx[s].next] \in S
    BY <1>1, <2>1, ElementInSet
  <2> QED BY <2>2 DEF S
<1> QED BY <1>3 DEF Event

(* Ends of events that write nothing.                                      *)
LEMMA EventDoneKeepsInvariant ==
  ASSUME LineInv, NEW s \in Sessions, tx[s].op = "webhook", MoreEvents(s),
         EventDone(s, Wrote(s)), UNCHANGED <<identity, stored, attempts>>
  PROVE  LineInv'
<1>1. LineTypeOK /\ Wrote(s) \in Writes
  BY WritesShape DEF LineInv
<1>2. PICK q : /\ Becomes(s, q) /\ q \in WebhookRequests /\ q.op = "webhook" /\ q.at = "event"
               /\ q.delivery = tx[s].delivery /\ q.wrote = Wrote(s) /\ q.id = NoId
  <2> DEFINE w == Wrote(s)
  <2>1. w \in Writes /\ EventDone(s, w)
    BY <1>1
  <2> HIDE DEF w
  <2>2. \E q : /\ Becomes(s, q) /\ q \in WebhookRequests /\ q.op = "webhook" /\ q.at = "event"
               /\ q.delivery = tx[s].delivery /\ q.wrote = w /\ q.id = NoId
    BY <1>1, <2>1, EventDoneShape
  <2> QED BY <2>2 DEF w
<1>3. LineTypeOK' /\ DeliveriesCounted' /\ EventsKept' /\ tx'[s] = q /\ OthersStay(s)
  BY <1>2, RequestKept
<1>4. Wrote(s)' = Wrote(s)
  BY <1>2, <1>3 DEF Wrote
<1>5. \A i \in IdentityIds : ~Refers(s, i)'
  BY <1>2, <1>3, LineAssumption DEF Refers, NoId
<1>6. TableInv'
  BY <1>3, <1>4, <1>5, QuietTables
<1> QED BY <1>3, <1>6, LayersMakeInvariant

(* Going on to a statement that may wait, about the row found or none.     *)
LEMMA GoKeepsInvariant ==
  ASSUME LineInv, NEW s \in Sessions, tx[s].op = "webhook", MoreEvents(s),
         NEW at \in {"insert", "unlink", "message"}, NEW i \in IdentityIds \cup {NoId},
         Go(s, at, i), UNCHANGED <<identity, stored, attempts>>,
         at = "unlink" => i \in IdentityIds,
         i \in IdentityIds => Seen(s)[i] # NoRow /\ Seen(s)[i].user = Event(s).user
  PROVE  LineInv'
<1> DEFINE q == WebhookRequest(tx[s].delivery, tx[s].next, at, Event(s).user, i, Wrote(s))
<1>1. /\ LineTypeOK /\ Wrote(s) \in Writes /\ Event(s).user \in LineUsers
      /\ Event(s) = Events[tx[s].delivery][tx[s].next]
      /\ tx[s].delivery \in Deliveries /\ tx[s].next \in Nat
      /\ tx[s].next \in 1 .. Len(Events[tx[s].delivery]) + 1
      /\ tx[s].next <= Len(Events[tx[s].delivery])
  BY WritesShape, EventShape, WebhookShape DEF LineInv, MoreEvents
<1>2. Becomes(s, q)
  BY DEF Go, Becomes
<1>3. /\ q \in WebhookRequests /\ q.op = "webhook" /\ q.at = at /\ q.next = tx[s].next
      /\ q.delivery = tx[s].delivery /\ q.wrote = Wrote(s) /\ q.id = i /\ q.user = Event(s).user
  BY <1>1 DEF WebhookRequests, WebhookRequest
<1> HIDE DEF q
<1>4. /\ q.next <= Len(Events[q.delivery]) /\ q.user = Events[q.delivery][q.next].user
      /\ q.at = "unlink" => q.id \in IdentityIds
  BY <1>1, <1>3
<1>5. LineTypeOK' /\ DeliveriesCounted' /\ EventsKept' /\ tx'[s] = q /\ OthersStay(s)
  BY <1>2, <1>3, <1>4, RequestKept
<1>6. Wrote(s)' = Wrote(s)
  BY <1>3, <1>5 DEF Wrote
<1>7. \A j \in IdentityIds : Refers(s, j)' =>
        Seen(s)[j] # NoRow /\ Seen(s)[j].user = tx'[s].user
  BY <1>3, <1>5 DEF Refers
<1>8. TableInv'
  BY <1>5, <1>6, <1>7, QuietTables
<1> QED BY <1>5, <1>8, LayersMakeInvariant
-------------------------------------------------------------------------------
LEMMA InsertIdentityKeepsInvariant ==
  ASSUME LineInv, NEW s \in Sessions, InsertIdentity(s)
  PROVE  LineInv'
<1> DEFINE u == tx[s].user
<1>1. /\ LineTypeOK /\ tx[s].op = "webhook" /\ tx[s].at = "insert" /\ Free(s, u)
      /\ UNCHANGED <<identity, stored, attempts>>
  BY DEF LineInv, InsertIdentity, Handling
<1>2. MoreEvents(s) /\ u = Event(s).user /\ u \in LineUsers
  BY <1>1, EventShape DEF LineInv, EventsKept
<1>3. CASE Reply(s)
  BY <1>1, <1>3, ReplyKeepsInvariant
<1>4. CASE ActiveRows(Seen(s), u) = {} /\ InsertPending(s)
  <2>1. NewId \in Fresh
    BY <1>4 DEF InsertPending, NewId
  <2>2. PICK i : i = NewId
    OBVIOUS
  <2>3. /\ i \in IdentityIds /\ identity[i] = NoRow /\ \A t \in Sessions : i \notin DOMAIN Wrote(t)
        /\ \A t \in Sessions : ~Refers(t, i)
    BY <2>1, <2>2 DEF Fresh, Refers
  <2>4. PICK w : w = [j \in DOMAIN Wrote(s) \cup {i} |-> IF j = i THEN PendingRow(u) ELSE Wrote(s)[j]]
    OBVIOUS
  <2>5. EventDone(s, w)
    BY <1>2, <1>4, <2>2, <2>4 DEF InsertPending
  <2>6. PendingRow(u) \in IdentityRows /\ PendingRow(u).user = u /\ PendingRow(u).customer = "null"
    BY <1>2 DEF PendingRow, IdentityRows
  <2>7. w \in Writes
    <3>1. /\ DOMAIN Wrote(s) \subseteq IdentityIds
          /\ \A j \in DOMAIN Wrote(s) : Wrote(s)[j] \in IdentityRows \cup {NoRow}
      BY <1>1, WritesShape, WrittenRows
    <3>2. w \in [DOMAIN Wrote(s) \cup {i} -> IdentityRows \cup {NoRow}]
      BY <2>4, <2>6, <3>1
    <3> QED BY <2>3, <3>1, <3>2 DEF Writes
  <2>8. PICK q : /\ Becomes(s, q) /\ q \in WebhookRequests /\ q.op = "webhook" /\ q.at = "event"
                 /\ q.delivery = tx[s].delivery /\ q.wrote = w /\ q.id = NoId
    BY <1>1, <1>2, <2>5, <2>7, EventDoneShape
  <2>9. LineTypeOK' /\ DeliveriesCounted' /\ EventsKept' /\ tx'[s] = q /\ OthersStay(s)
    BY <1>1, <2>8, RequestKept
  <2>10. Wrote(s)' = w
    BY <2>8, <2>9 DEF Wrote
  <2>11. \A j \in IdentityIds : ~Refers(s, j)'
    BY <2>8, <2>9, LineAssumption DEF Refers, NoId
  <2>12. PICK row : row = PendingRow(u)
    OBVIOUS
  <2>13. row # NoRow /\ row \in IdentityRows \cup {NoRow} /\ row.user = u /\ row.customer = "null"
    BY <2>6, <2>12, RowShape
  <2>14. Wrote(s)' = [j \in DOMAIN Wrote(s) \cup {i} |-> IF j = i THEN row ELSE Wrote(s)[j]]
    BY <2>4, <2>10, <2>12
  <2> HIDE DEF u
  <2>15. TableInv'
    BY <1>1, <1>2, <1>4, <2>3, <2>9, <2>11, <2>13, <2>14, LocalWriteTables
  <2> QED BY <2>9, <2>15, LayersMakeInvariant
<1> QED BY <1>3, <1>4 DEF InsertIdentity

LEMMA UnlinkIdentityKeepsInvariant ==
  ASSUME LineInv, NEW s \in Sessions, UnlinkIdentity(s)
  PROVE  LineInv'
<1> DEFINE u == tx[s].user
<1>1. /\ LineTypeOK /\ tx[s].op = "webhook" /\ tx[s].at = "unlink" /\ Free(s, u)
      /\ UNCHANGED <<identity, stored, attempts>>
  BY DEF LineInv, UnlinkIdentity, Handling
<1>2. MoreEvents(s) /\ u = Event(s).user /\ u \in LineUsers /\ tx[s].id \in IdentityIds
  BY <1>1, EventShape DEF LineInv, EventsKept
<1>3. CASE EventDone(s, Wrote(s))
  BY <1>1, <1>2, <1>3, EventDoneKeepsInvariant
<1>4. CASE ~EventDone(s, Wrote(s))
  <2>1. PICK i \in IdentityIds : i = tx[s].id
    BY <1>2
  <2>2. PICK w : w = [j \in DOMAIN Wrote(s) \cup {i} |-> IF j = i THEN NoRow ELSE Wrote(s)[j]]
    OBVIOUS
  <2>3. EventDone(s, w) /\ Seen(s)[i] # NoRow
    BY <1>4, <2>1, <2>2 DEF UnlinkIdentity
  <2>4. Seen(s)[i].user = u
    BY <1>1, <2>1, <2>3 DEF LineInv, ReferencesHold, Refers
  <2>5. ASSUME NEW t \in Sessions \ {s} PROVE i \notin DOMAIN Wrote(t)
    <3> SUFFICES ASSUME i \in DOMAIN Wrote(t) PROVE FALSE
      OBVIOUS
    <3>1. i \notin DOMAIN Wrote(s)
      BY DEF LineInv, WritesApart
    <3>2. identity[i].user = u
      BY <1>1, <2>4, <3>1, SeenShape
    <3>3. Holds(t, u)
      BY <3>2 DEF Holds
    <3> QED BY <1>1, <3>3 DEF Free
  <2>6. identity[i] # NoRow => identity[i].user = u \/ i \in DOMAIN Wrote(s)
    BY <1>1, <2>4, SeenShape
  <2>7. w \in Writes
    <3>1. /\ DOMAIN Wrote(s) \subseteq IdentityIds
          /\ \A j \in DOMAIN Wrote(s) : Wrote(s)[j] \in IdentityRows \cup {NoRow}
      BY <1>1, WritesShape, WrittenRows
    <3>2. w \in [DOMAIN Wrote(s) \cup {i} -> IdentityRows \cup {NoRow}]
      BY <2>2, <3>1
    <3> QED BY <3>1, <3>2 DEF Writes
  <2>8. PICK q : /\ Becomes(s, q) /\ q \in WebhookRequests /\ q.op = "webhook" /\ q.at = "event"
                 /\ q.delivery = tx[s].delivery /\ q.wrote = w /\ q.id = NoId
    BY <1>1, <1>2, <2>3, <2>7, EventDoneShape
  <2>9. LineTypeOK' /\ DeliveriesCounted' /\ EventsKept' /\ tx'[s] = q /\ OthersStay(s)
    BY <1>1, <2>8, RequestKept
  <2>10. Wrote(s)' = w
    BY <2>8, <2>9 DEF Wrote
  <2>11. \A j \in IdentityIds : ~Refers(s, j)'
    BY <2>8, <2>9, LineAssumption DEF Refers, NoId
  <2>12. PICK row : row = NoRow
    OBVIOUS
  <2>13. Wrote(s)' = [j \in DOMAIN Wrote(s) \cup {i} |-> IF j = i THEN row ELSE Wrote(s)[j]]
    BY <2>2, <2>10, <2>12
  <2> HIDE DEF u
  <2>14. TableInv'
    BY <1>1, <1>2, <2>5, <2>6, <2>9, <2>11, <2>12, <2>13, LocalWriteTables
  <2> QED BY <2>9, <2>14, LayersMakeInvariant
<1> QED BY <1>3, <1>4
-------------------------------------------------------------------------------
LEMMA FindIdentityKeepsInvariant ==
  ASSUME LineInv, NEW s \in Sessions, Ignore(s) \/ FindIdentity(s)
  PROVE  LineInv'
<1>1. /\ tx[s].op = "webhook" /\ MoreEvents(s) /\ UNCHANGED <<identity, stored, attempts>>
  BY DEF Ignore, FindIdentity, Handling
<1>2. CASE EventDone(s, Wrote(s))
  BY <1>1, <1>2, EventDoneKeepsInvariant
<1>3. CASE Go(s, "insert", NoId)
  BY <1>1, <1>3, GoKeepsInvariant, LineAssumption DEF NoId
<1>4. ASSUME NEW i \in ActiveRows(Seen(s), Event(s).user), NEW at \in {"unlink", "message"},
             Go(s, at, i)
      PROVE  LineInv'
  <2>1. i \in IdentityIds /\ Seen(s)[i] # NoRow /\ Seen(s)[i].user = Event(s).user
    BY DEF ActiveRows
  <2> QED BY <1>1, <1>4, <2>1, GoKeepsInvariant
<1> QED BY <1>2, <1>3, <1>4 DEF Ignore, FindIdentity

(* What administrators read, and what they go on with.                     *)
LEMMA AdminReadKeepsInvariant ==
  ASSUME LineInv, NEW s \in Admins, tx[s] = Idle, UNCHANGED <<identity, stored, attempts>>,
         NEW q \in LinkRequests, Becomes(s, q),
         q.id \in IdentityIds => identity[q.id] # NoRow /\ identity[q.id].user = q.user
  PROVE  LineInv'
<1>1. s \in Sessions /\ LineTypeOK /\ q.op \notin {"webhook", "idle"}
  BY DEF Sessions, LineInv, LinkRequests
<1>2. LineTypeOK' /\ DeliveriesCounted' /\ EventsKept' /\ tx'[s] = q /\ OthersStay(s)
  BY <1>1, RequestKept
<1>3. Wrote(s) = <<>> /\ Wrote(s)' = Wrote(s)
  BY <1>1, <1>2, IdleShape DEF Wrote
<1>4. \A i \in IdentityIds : Seen(s)[i] = identity[i]
  BY <1>1, <1>3, SeenShape
<1>5. \A i \in IdentityIds : Refers(s, i)' => Seen(s)[i] # NoRow /\ Seen(s)[i].user = tx'[s].user
  BY <1>2, <1>4 DEF Refers
<1>6. TableInv'
  BY <1>1, <1>2, <1>3, <1>5, QuietTables
<1> QED BY <1>2, <1>6, LayersMakeInvariant

LEMMA AdminReadsKeepInvariant ==
  ASSUME LineInv, NEW s \in Admins,
         \/ \E l \in Links : ReadForLink(s, l[1], l[2])
         \/ \E i \in IdentityIds : ReadForUnlink(s, i)
  PROVE  LineInv'
<1>1. ASSUME NEW u \in LineUsers, NEW c \in Customers, ReadForLink(s, u, c) PROVE LineInv'
  <2>1. tx[s] = Idle /\ UNCHANGED <<identity, stored, attempts>>
    BY <1>1 DEF ReadForLink
  <2>2. CASE tx' = [tx EXCEPT ![s] = [op |-> "linkNew", user |-> u, customer |-> c, id |-> NoId]]
    <3> DEFINE q == [op |-> "linkNew", user |-> u, customer |-> c, id |-> NoId]
    <3>1. q \in LinkRequests /\ q.id \notin IdentityIds /\ Becomes(s, q)
      BY <2>2, LineAssumption DEF LinkRequests, NoId, Becomes
    <3> HIDE DEF q
    <3> QED BY <2>1, <3>1, AdminReadKeepsInvariant
  <2>3. ASSUME NEW i \in ActiveRows(identity, u),
               tx' = [tx EXCEPT ![s] = [op |-> "link", user |-> u, customer |-> c, id |-> i]]
        PROVE  LineInv'
    <3> DEFINE q == [op |-> "link", user |-> u, customer |-> c, id |-> i]
    <3>1. i \in IdentityIds /\ identity[i] # NoRow /\ identity[i].user = u
      BY DEF ActiveRows
    <3>2. q \in LinkRequests /\ Becomes(s, q) /\ q.id = i /\ q.user = u
      BY <2>3, <3>1 DEF LinkRequests, Becomes
    <3> HIDE DEF q
    <3> QED BY <2>1, <3>1, <3>2, AdminReadKeepsInvariant
  <2> QED BY <1>1, <2>2, <2>3 DEF ReadForLink
<1>2. ASSUME NEW i \in IdentityIds, ReadForUnlink(s, i) PROVE LineInv'
  <2> DEFINE q == [op |-> "unlink", user |-> identity[i].user, id |-> i]
  <2>1. /\ tx[s] = Idle /\ UNCHANGED <<identity, stored, attempts>> /\ identity[i] # NoRow
        /\ Becomes(s, q)
    BY <1>2 DEF ReadForUnlink, Becomes
  <2>2. identity[i].user \in LineUsers
    BY <2>1, RowShape DEF LineInv, LineTypeOK
  <2>3. q \in LinkRequests /\ q.id = i /\ q.user = identity[i].user
    BY <2>2 DEF LinkRequests
  <2>4. PICK r : r = q
    OBVIOUS
  <2> HIDE DEF q
  <2> QED BY <2>1, <2>3, <2>4, AdminReadKeepsInvariant
<1>3. \A l \in Links : l[1] \in LineUsers /\ l[2] \in Customers
  BY LineAssumption
<1> QED BY <1>1, <1>2, <1>3

(* Commits of administrators: one row, which no other session has written. *)
LEMMA AdminCommitShape ==
  ASSUME LineInv, NEW s \in Sessions, tx[s].op \notin {"webhook", "idle"}, Becomes(s, Idle),
         UNCHANGED <<stored, attempts>>,
         NEW i \in IdentityIds, NEW row \in IdentityRows \cup {NoRow},
         identity' = [identity EXCEPT ![i] = row],
         \A t \in Sessions : i \notin DOMAIN Wrote(t),
         \/ row = NoRow
         \/ row # NoRow /\ identity[i] # NoRow /\ row.user = identity[i].user
         \/ /\ row # NoRow /\ Free(s, row.user) /\ ActiveRows(identity, row.user) = {}
            /\ identity[i] = NoRow /\ \A t \in Sessions : ~Refers(t, i)
  PROVE  LineInv'
<1>1. LineTypeOK /\ Wrote(s) = <<>>
  BY AdminShape DEF LineInv
<1>2. /\ tx'[s] = Idle /\ OthersStay(s)
      /\ tx' \in [Sessions -> WebhookRequests \cup LinkRequests \cup {Idle}]
      /\ \A t \in Sessions : tx'[t].op = "webhook" => t \in Webhooks
      /\ \A t \in Sessions : tx'[t].op \notin {"webhook", "idle"} => t \in Admins
  BY <1>1, IdleShape, BecomesShape
<1>3. LineTypeOK'
  <2>1. identity' \in [IdentityIds -> IdentityRows \cup {NoRow}]
    BY <1>1 DEF LineTypeOK
  <2> QED BY <1>1, <1>2, <2>1 DEF LineTypeOK
<1>4. DeliveriesCounted' /\ EventsKept'
  BY <1>2, IdleShape, CountKept, EventsOfOthersKept
<1>5. TableInv'
  BY <1>1, <1>2, <1>3, IdleShape, AdminWriteTables
<1> QED BY <1>3, <1>4, <1>5, LayersMakeInvariant

LEMMA AdminStepKeepsInvariant ==
  ASSUME LineInv, NEW s \in Sessions, AdminStep(s)
  PROVE  LineInv'
<1> DEFINE u == tx[s].user
<1>1. /\ LineTypeOK /\ tx[s].op \in {"link", "linkNew", "unlink"} /\ Free(s, u) /\ Reply(s)
      /\ UNCHANGED <<stored, attempts>> /\ Becomes(s, Idle)
  BY DEF LineInv, AdminStep, CommitLink, CommitLinkNew, CommitUnlink, Reply, Becomes
<1>2. u \in LineUsers /\ Wrote(s) = <<>> /\ tx[s] \in LinkRequests
  BY <1>1, AdminShape
<1>3. CASE UNCHANGED identity
  BY <1>1, <1>3, ReplyKeepsInvariant
(* A row of a user nobody holds has been written by nobody.                *)
<1>4. ASSUME NEW i \in IdentityIds, identity[i] # NoRow, identity[i].user = u, NEW t \in Sessions
      PROVE  i \notin DOMAIN Wrote(t)
  <2>1. CASE t = s
    BY <1>2, <2>1, NothingWritten
  <2>2. CASE t # s
    BY <1>1, <1>4, <2>2 DEF Free, Holds
  <2> QED BY <2>1, <2>2
<1>5. CASE CommitLink(s) /\ identity' # identity
  <2>1. PICK i \in IdentityIds : i = tx[s].id
    <3>1. tx[s].op = "link"
      BY <1>5 DEF CommitLink
    <3>2. identity' = [identity EXCEPT ![tx[s].id].customer = tx[s].customer]
      BY <1>5 DEF CommitLink
    <3>3. tx[s].id \in IdentityIds
      <4> SUFFICES ASSUME tx[s].id \notin IdentityIds PROVE identity' = identity
        BY <1>5
      <4> QED BY <1>1, <3>2 DEF LineTypeOK
    <3> QED BY <3>3
  <2>2. /\ identity[i] # NoRow /\ identity' = [identity EXCEPT ![i].customer = tx[s].customer]
        /\ tx[s].op = "link"
    BY <1>5, <2>1 DEF CommitLink
  <2>3. identity[i] \in IdentityRows /\ tx[s].customer \in Customers
    BY <1>1, <1>2, <2>2 DEF LineTypeOK, LinkRequests
  <2>4. identity[i].user = u
    <3>1. Seen(s)[i] = identity[i]
      BY <1>1, <1>2, NothingWritten, SeenShape
    <3> QED BY <1>1, <2>1, <2>2, <3>1 DEF LineInv, ReferencesHold, Refers
  <2>5. PICK row : row = [identity[i] EXCEPT !.customer = tx[s].customer]
    OBVIOUS
  <2>6. /\ row \in IdentityRows /\ row.user = identity[i].user
        /\ identity' = [identity EXCEPT ![i] = row]
    BY <1>1, <2>2, <2>3, <2>5 DEF IdentityRows, LineTypeOK
  <2>7. row # NoRow
    BY <2>6, RowShape
  <2> HIDE DEF u
  <2> QED BY <1>1, <1>4, <2>2, <2>4, <2>6, <2>7, AdminCommitShape DEF u
<1>6. CASE CommitLinkNew(s) /\ identity' # identity
  <2>1. /\ ActiveRows(identity, u) = {} /\ Fresh # {} /\ tx[s].op = "linkNew"
        /\ identity' = [identity EXCEPT ![NewId] = [user |-> u, customer |-> tx[s].customer]]
    BY <1>6 DEF CommitLinkNew
  <2>2. PICK i : i = NewId
    OBVIOUS
  <2>3. /\ i \in IdentityIds /\ identity[i] = NoRow /\ \A t \in Sessions : i \notin DOMAIN Wrote(t)
        /\ \A t \in Sessions : ~Refers(t, i)
    BY <2>1, <2>2 DEF NewId, Fresh, Refers
  <2>4. PICK row : row = [user |-> u, customer |-> tx[s].customer]
    OBVIOUS
  <2>5. row \in IdentityRows /\ row.user = u /\ row # NoRow
    BY <1>2, <2>1, <2>4, RowShape DEF LinkRequests, IdentityRows
  <2>6. identity' = [identity EXCEPT ![i] = row]
    BY <2>1, <2>2, <2>4
  <2>7. /\ row # NoRow /\ Free(s, row.user) /\ ActiveRows(identity, row.user) = {}
        /\ identity[i] = NoRow /\ \A t \in Sessions : ~Refers(t, i)
    BY <1>1, <2>1, <2>3, <2>5
  <2>8. tx[s].op \notin {"webhook", "idle"} /\ i \in IdentityIds
    BY <1>1, <2>3
  <2> HIDE DEF u
  <2> QED BY <1>1, <2>3, <2>5, <2>6, <2>7, <2>8, AdminCommitShape
<1>7. CASE CommitUnlink(s) /\ identity' # identity
  <2>1. tx[s].op = "unlink" /\ identity' = [identity EXCEPT ![tx[s].id] = NoRow]
    BY <1>7 DEF CommitUnlink
  <2>2. PICK i \in IdentityIds : i = tx[s].id
    BY <1>2, <2>1 DEF LinkRequests
  <2>3. identity[i] # NoRow
    BY <1>1, <1>7, <2>1, <2>2 DEF LineTypeOK
  <2>4. identity[i].user = u
    <3>1. Seen(s)[i] = identity[i]
      BY <1>1, <1>2, NothingWritten, SeenShape
    <3> QED BY <1>1, <2>2, <2>3, <3>1 DEF LineInv, ReferencesHold, Refers
  <2>5. \A t \in Sessions : i \notin DOMAIN Wrote(t)
    BY <1>4, <2>3, <2>4
  <2>6. PICK row : row = NoRow
    OBVIOUS
  <2>7. identity' = [identity EXCEPT ![i] = row] /\ row \in IdentityRows \cup {NoRow}
    BY <2>1, <2>2, <2>6
  <2>8. tx[s].op \notin {"webhook", "idle"}
    BY <1>1
  <2>9. \/ row = NoRow
        \/ row # NoRow /\ identity[i] # NoRow /\ row.user = identity[i].user
        \/ /\ row # NoRow /\ Free(s, row.user) /\ ActiveRows(identity, row.user) = {}
           /\ identity[i] = NoRow /\ \A t \in Sessions : ~Refers(t, i)
    BY <2>6
  <2>10. i \in IdentityIds /\ Becomes(s, Idle) /\ UNCHANGED <<stored, attempts>>
    BY <1>1, <2>2
  <2> HIDE DEF u
  <2> QED BY <2>5, <2>7, <2>8, <2>9, <2>10, AdminCommitShape
<1> QED BY <1>3, <1>5, <1>6, <1>7 DEF AdminStep
-------------------------------------------------------------------------------
LEMMA DeliverKeepsInvariant ==
  ASSUME LineInv, NEW s \in Webhooks, NEW e \in Deliveries, Deliver(s, e)
  PROVE  LineInv'
<1> DEFINE q == WebhookRequest(e, 1, "event", "none", NoId, <<>>)
<1>1. /\ LineTypeOK /\ s \in Sessions /\ tx[s] = Idle /\ attempts[e] < Attempts[e]
      /\ attempts' = [attempts EXCEPT ![e] = @ + 1]
      /\ UNCHANGED <<identity, stored>> /\ Becomes(s, q)
  BY DEF LineInv, Deliver, Becomes, Sessions
<1>2. /\ q \in WebhookRequests /\ q.op = "webhook" /\ q.at = "event" /\ q.delivery = e
      /\ q.wrote = <<>> /\ q.id = NoId
  <2>1. Len(Events[e]) \in Nat
    BY LineAssumption
  <2> QED BY <2>1, NothingWritten DEF WebhookRequests, WebhookRequest
<1> HIDE DEF q
<1>3. /\ tx'[s] = q /\ OthersStay(s)
      /\ tx' \in [Sessions -> WebhookRequests \cup LinkRequests \cup {Idle}]
      /\ \A t \in Sessions : tx'[t].op = "webhook" => t \in Webhooks
      /\ \A t \in Sessions : tx'[t].op \notin {"webhook", "idle"} => t \in Admins
  BY <1>1, <1>2, BecomesShape
<1>4. /\ attempts' \in [Deliveries -> Nat] /\ attempts'[e] = attempts[e] + 1
      /\ \A d \in Deliveries \ {e} : attempts'[d] = attempts[d]
      /\ attempts[e] \in Nat /\ Attempts[e] \in Nat
  <2>1. attempts \in [Deliveries -> Nat] /\ attempts[e] \in Nat /\ Attempts[e] \in Nat
    BY <1>1, Numbers DEF LineTypeOK
  <2> QED BY <1>1, <2>1
<1>5. LineTypeOK'
  BY <1>1, <1>3, <1>4 DEF LineTypeOK
<1>6. EventsKept'
  <2>1. tx'[s].at = "event"
    BY <1>2, <1>3
  <2> QED BY <1>1, <1>3, <2>1, EventsOfOthersKept, Zenon
<1>7. DeliveriesCounted'
  <2> SUFFICES ASSUME NEW d \in Deliveries, NEW i \in 1 .. Len(Events[d])
               PROVE  stored[d][i] + Cardinality(Delivering(d)') <= attempts'[d]
    BY <1>1 DEF DeliveriesCounted
  <2>1. IsFiniteSet(Delivering(d))
    BY LineAssumption, FS_Subset DEF Delivering, Sessions
  <2>2. Cardinality(Delivering(d)) \in Nat /\ stored[d][i] \in Nat /\ attempts[d] \in Nat
    BY <1>1, <2>1, FS_CardinalityType, Numbers
  <2>3. stored[d][i] + Cardinality(Delivering(d)) <= attempts[d]
    BY DEF LineInv, DeliveriesCounted
  <2>4. CASE d = e
    <3>1. Delivering(d)' = Delivering(d) \cup {s}
      BY <1>2, <1>3, <2>4 DEF Delivering, OthersStay, Sessions
    <3>2. s \notin Delivering(d)
      BY <1>1, IdleShape DEF Delivering
    <3>3. Cardinality(Delivering(d) \cup {s}) =
            IF s \in Delivering(d) THEN Cardinality(Delivering(d)) ELSE Cardinality(Delivering(d)) + 1
      BY <2>1, FS_AddElement
    <3>4. Cardinality(Delivering(d)') = Cardinality(Delivering(d)) + 1
      BY <3>1, <3>2, <3>3
    <3> QED BY <1>4, <2>2, <2>3, <2>4, <3>4
  <2>5. CASE d # e
    <3>1. Delivering(d)' = Delivering(d)
      BY <1>1, <1>2, <1>3, <2>5, IdleShape DEF Delivering, OthersStay, Sessions
    <3> QED BY <1>4, <2>2, <2>3, <2>5, <3>1
  <2> QED BY <2>4, <2>5
<1>8. Wrote(s)' = Wrote(s)
  BY <1>1, <1>2, <1>3, IdleShape DEF Wrote
<1>9. \A i \in IdentityIds : ~Refers(s, i)'
  BY <1>2, <1>3, LineAssumption DEF Refers, NoId
<1>10. TableInv'
  BY <1>1, <1>3, <1>5, <1>8, <1>9, QuietTables
<1> QED BY <1>5, <1>6, <1>7, <1>10, LayersMakeInvariant

(* What a COMMIT records: each event of the delivery once more, and that   *)
(* is one of its attempts.                                                 *)
LEMMA CommitShape ==
  ASSUME LineInv, NEW s \in Sessions, CommitDelivery(s)
  PROVE  LET e == tx[s].delivery
         IN  /\ e \in Deliveries /\ s \in Delivering(e)
             /\ \A i \in 1 .. Len(Events[e]) : stored[e][i] < attempts[e] /\ stored[e][i] < Attempts[e]
             /\ stored' = [stored EXCEPT ![e] = [i \in 1 .. Len(Events[e]) |-> stored[e][i] + 1]]
<1> DEFINE e == tx[s].delivery
<1>1. LineTypeOK /\ tx[s].op = "webhook" /\ Recorded(e, Len(Events[e]))
  BY DEF LineInv, CommitDelivery, Handling
<1>2. e \in Deliveries /\ s \in Delivering(e) /\ Len(Events[e]) \in Nat
  BY <1>1, WebhookShape DEF Delivering
<1>3. ASSUME NEW i \in 1 .. Len(Events[e])
      PROVE  stored[e][i] < attempts[e] /\ stored[e][i] < Attempts[e]
  <2>1. IsFiniteSet(Delivering(e))
    BY LineAssumption, FS_Subset DEF Delivering, Sessions
  <2>2. Cardinality(Delivering(e)) \in Nat /\ Cardinality(Delivering(e)) # 0
    BY <1>2, <2>1, FS_CardinalityType, FS_EmptySet
  <2>3. stored[e][i] \in Nat /\ attempts[e] \in Nat /\ Attempts[e] \in Nat /\ attempts[e] <= Attempts[e]
    BY <1>1, <1>2, Numbers
  <2>4. stored[e][i] + Cardinality(Delivering(e)) <= attempts[e]
    BY <1>2 DEF LineInv, DeliveriesCounted
  <2> QED BY <2>2, <2>3, <2>4
<1>4. DOMAIN stored[e] = 1 .. Len(Events[e])
  BY <1>1, <1>2 DEF LineTypeOK
<1>5. [i \in DOMAIN stored[e] |-> IF i <= Len(Events[e]) THEN stored[e][i] + 1 ELSE stored[e][i]]
        = [i \in 1 .. Len(Events[e]) |-> stored[e][i] + 1]
  BY <1>2, <1>4
<1>6. stored' = [stored EXCEPT ![e] = [i \in 1 .. Len(Events[e]) |-> stored[e][i] + 1]]
  BY <1>1, <1>5 DEF Recorded
<1> QED BY <1>2, <1>3, <1>6

LEMMA CommitDeliveryKeepsInvariant ==
  ASSUME LineInv, NEW s \in Sessions, CommitDelivery(s)
  PROVE  LineInv'
<1> DEFINE e == tx[s].delivery
<1>1. /\ LineTypeOK /\ tx[s].op = "webhook" /\ identity' = Seen(s) /\ attempts' = attempts
      /\ Becomes(s, Idle)
  BY DEF LineInv, CommitDelivery, Handling, Reply, Becomes
<1>2. /\ e \in Deliveries /\ s \in Delivering(e)
      /\ \A i \in 1 .. Len(Events[e]) : stored[e][i] < attempts[e] /\ stored[e][i] < Attempts[e]
      /\ stored' = [stored EXCEPT ![e] = [i \in 1 .. Len(Events[e]) |-> stored[e][i] + 1]]
  BY CommitShape
<1>3. /\ tx'[s] = Idle /\ OthersStay(s)
      /\ tx' \in [Sessions -> WebhookRequests \cup LinkRequests \cup {Idle}]
      /\ \A t \in Sessions : tx'[t].op = "webhook" => t \in Webhooks
      /\ \A t \in Sessions : tx'[t].op \notin {"webhook", "idle"} => t \in Admins
  BY <1>1, IdleShape, BecomesShape
<1>4. /\ DOMAIN stored' = Deliveries
      /\ \A d \in Deliveries \ {e} : stored'[d] = stored[d]
      /\ stored'[e] = [i \in 1 .. Len(Events[e]) |-> stored[e][i] + 1]
  BY <1>1, <1>2 DEF LineTypeOK
<1>5. stored'[e] \in [1 .. Len(Events[e]) -> 0 .. Attempts[e]]
  <2>1. \A i \in 1 .. Len(Events[e]) : stored[e][i] + 1 \in 0 .. Attempts[e]
    BY <1>1, <1>2, Numbers
  <2> QED BY <1>4, <2>1
<1>6. LineTypeOK'
  <2>1. identity' \in [IdentityIds -> IdentityRows \cup {NoRow}]
    BY <1>1, SeenShape
  <2>2. \A d \in Deliveries : stored'[d] \in [1 .. Len(Events[d]) -> 0 .. Attempts[d]]
    BY <1>1, <1>4, <1>5 DEF LineTypeOK
  <2> QED BY <1>1, <1>3, <1>4, <2>1, <2>2 DEF LineTypeOK
<1>7. DeliveriesCounted'
  <2> SUFFICES ASSUME NEW d \in Deliveries, NEW i \in 1 .. Len(Events[d])
               PROVE  stored'[d][i] + Cardinality(Delivering(d)') <= attempts[d]
    BY <1>1 DEF DeliveriesCounted
  <2>1. IsFiniteSet(Delivering(d))
    BY LineAssumption, FS_Subset DEF Delivering, Sessions
  <2>2. Cardinality(Delivering(d)) \in Nat /\ stored[d][i] \in Nat /\ attempts[d] \in Nat
    BY <1>1, <2>1, FS_CardinalityType, Numbers
  <2>3. stored[d][i] + Cardinality(Delivering(d)) <= attempts[d]
    BY DEF LineInv, DeliveriesCounted
  <2>4. Delivering(d)' = Delivering(d) \ {s}
    BY <1>3, IdleShape DEF Delivering, OthersStay, Sessions
  <2>5. Cardinality(Delivering(d) \ {s}) =
          IF s \in Delivering(d) THEN Cardinality(Delivering(d)) - 1 ELSE Cardinality(Delivering(d))
    BY <2>1, FS_RemoveElement
  <2>6. CASE d = e
    <3>1. stored'[d][i] = stored[d][i] + 1
      BY <1>4, <2>6
    <3>2. Cardinality(Delivering(d)') = Cardinality(Delivering(d)) - 1
      BY <1>2, <2>4, <2>5, <2>6
    <3> QED BY <2>2, <2>3, <3>1, <3>2
  <2>7. CASE d # e
    <3>1. stored'[d][i] = stored[d][i] /\ s \notin Delivering(d)
      BY <1>4, <2>7 DEF Delivering
    <3> QED BY <2>2, <2>3, <2>4, <2>5, <3>1
  <2> QED BY <2>6, <2>7
<1>8. EventsKept'
  BY <1>3, IdleShape, EventsOfOthersKept
<1>9. TableInv'
  BY <1>1, <1>3, <1>6, IdleShape, CommitTables
<1> QED BY <1>6, <1>7, <1>8, <1>9, LayersMakeInvariant
-------------------------------------------------------------------------------
LEMMA WebhookStepKeepsInvariant ==
  ASSUME LineInv, NEW s \in Webhooks, WebhookStep(s)
  PROVE  LineInv'
<1>1. s \in Sessions
  BY DEF Sessions
<1>2. CASE Ignore(s) \/ FindIdentity(s)
  BY <1>1, <1>2, FindIdentityKeepsInvariant
<1>3. CASE InsertIdentity(s)
  BY <1>1, <1>3, InsertIdentityKeepsInvariant
<1>4. CASE UnlinkIdentity(s)
  BY <1>1, <1>4, UnlinkIdentityKeepsInvariant
<1>5. CASE RejectMessage(s)
  BY <1>1, <1>5, ReplyKeepsInvariant DEF RejectMessage
<1>6. CASE CommitDelivery(s)
  BY <1>1, <1>6, CommitDeliveryKeepsInvariant
<1> QED BY <1>2, <1>3, <1>4, <1>5, <1>6 DEF WebhookStep

(* Every step is one of these.                                             *)
LEMMA LineSteps ==
  ASSUME LineNext
  PROVE  \/ \E s \in Webhooks, d \in Deliveries : Deliver(s, d)
         \/ \E s \in Webhooks : WebhookStep(s)
         \/ \E s \in Admins : \/ \E l \in Links : ReadForLink(s, l[1], l[2])
                              \/ \E i \in IdentityIds : ReadForUnlink(s, i)
         \/ \E s \in Admins : AdminStep(s)
         \/ \E s \in Sessions : Reply(s) /\ UNCHANGED <<identity, stored, attempts>>
BY DEF LineNext, LineSteady, BreakDeadlock, RollbackLine, Sessions

LEMMA LineStepKeepsInvariant ==
  ASSUME LineInv, LineNext
  PROVE  LineInv'
<1>1. CASE \E s \in Webhooks, d \in Deliveries : Deliver(s, d)
  BY <1>1, DeliverKeepsInvariant
<1>2. CASE \E s \in Webhooks : WebhookStep(s)
  BY <1>2, WebhookStepKeepsInvariant
<1>3. CASE \E s \in Admins : \/ \E l \in Links : ReadForLink(s, l[1], l[2])
                             \/ \E i \in IdentityIds : ReadForUnlink(s, i)
  BY <1>3, AdminReadsKeepInvariant
<1>4. CASE \E s \in Admins : AdminStep(s)
  BY <1>4, AdminStepKeepsInvariant DEF Sessions
<1>5. CASE \E s \in Sessions : Reply(s) /\ UNCHANGED <<identity, stored, attempts>>
  BY <1>5, ReplyKeepsInvariant
<1> QED BY <1>1, <1>2, <1>3, <1>4, <1>5, LineSteps

LEMMA StutterKeepsInvariant ==
  ASSUME LineInv, UNCHANGED lineVars
  PROVE  LineInv'
<1>1. identity' = identity /\ stored' = stored /\ attempts' = attempts /\ tx' = tx
  BY DEF lineVars
<1>2. LineTypeOK'
  BY <1>1 DEF LineInv, LineTypeOK
<1>3. DeliveriesCounted' /\ EventsKept'
  BY <1>1 DEF LineInv, DeliveriesCounted, Delivering, EventsKept, MoreEvents, Event
<1>4. \A s \in Sessions : Wrote(s)' = Wrote(s)
  BY <1>1 DEF Wrote
<1>5. \A s \in Sessions : Seen(s)' = Seen(s) /\ \A u : Holds(s, u)' <=> Holds(s, u)
  BY <1>1, <1>4 DEF Seen, Holds
<1>6. UsersApart' /\ WritesApart' /\ InsertsNew'
  BY <1>1, <1>4, <1>5 DEF LineInv, UsersApart, WritesApart, InsertsNew
<1>7. OneRowInSight'
  BY <1>1, <1>5 DEF LineInv, OneRowInSight, AtMostOne, ActiveRows
<1>8. ReferencesHold'
  BY <1>1, <1>4, <1>5 DEF LineInv, ReferencesHold, Refers
<1> QED BY <1>2, <1>3, <1>6, <1>7, <1>8 DEF LineInv

LEMMA InitEstablishesInvariant ==
  ASSUME LineInit
  PROVE  LineInv
<1>1. /\ \A s \in Sessions : tx[s] = Idle /\ tx[s].op = "idle"
      /\ \A i \in IdentityIds : identity[i] = NoRow
  BY DEF LineInit, Idle
<1>2. \A s \in Sessions : Wrote(s) = <<>> /\ DOMAIN Wrote(s) = {}
  BY <1>1 DEF Wrote
<1>3. \A s \in Sessions, i \in IdentityIds : Seen(s)[i] = NoRow
  BY <1>1, <1>2 DEF Seen
<1>4. LineTypeOK
  <2>1. \A d \in Deliveries : Len(Events[d]) \in Nat /\ Attempts[d] \in Nat
    BY LineAssumption
  <2>2. \A d \in Deliveries : stored[d] \in [1 .. Len(Events[d]) -> 0 .. Attempts[d]]
    BY <2>1 DEF LineInit
  <2>3. /\ DOMAIN stored = Deliveries /\ attempts \in [Deliveries -> Nat]
        /\ \A d \in Deliveries : attempts[d] <= Attempts[d]
    BY <2>1 DEF LineInit
  <2>4. /\ identity \in [IdentityIds -> IdentityRows \cup {NoRow}]
        /\ tx \in [Sessions -> WebhookRequests \cup LinkRequests \cup {Idle}]
    BY DEF LineInit
  <2> QED BY <1>1, <2>2, <2>3, <2>4 DEF LineTypeOK
<1>5. DeliveriesCounted
  <2> SUFFICES ASSUME NEW d \in Deliveries, NEW i \in 1 .. Len(Events[d])
               PROVE  stored[d][i] + Cardinality(Delivering(d)) <= attempts[d]
    BY DEF DeliveriesCounted
  <2>1. Delivering(d) = {}
    BY <1>1 DEF Delivering, Sessions
  <2>2. Cardinality(Delivering(d)) = 0
    BY <2>1, FS_EmptySet
  <2>3. stored[d][i] = 0 /\ attempts[d] = 0
    BY DEF LineInit
  <2> QED BY <2>2, <2>3
<1>6. EventsKept /\ ReferencesHold
  BY <1>1 DEF EventsKept, ReferencesHold, Refers
<1>7. UsersApart /\ WritesApart /\ InsertsNew
  BY <1>2 DEF UsersApart, Holds, WritesApart, InsertsNew
<1>8. OneRowInSight
  BY <1>1, <1>3 DEF OneRowInSight, AtMostOne, ActiveRows
<1> QED BY <1>4, <1>5, <1>6, <1>7, <1>8 DEF LineInv
-------------------------------------------------------------------------------
(* What transactions under way have written, and what each of them sees,   *)
(* stays in order: LineService.js:88-236, CustomerLineIdentityService.js.  *)
THEOREM LineInvariant == LineSpec => []LineInv
<1>1. LineInit => LineInv
  BY InitEstablishesInvariant
<1>2. LineInv /\ [LineNext]_lineVars => LineInv'
  BY LineStepKeepsInvariant, StutterKeepsInvariant
<1> QED BY <1>1, <1>2, PTL DEF LineSpec

(* Rows, counters and requests are of the form the tables give them.       *)
THEOREM LineTypeCorrect == LineSpec => []LineTypeOK
<1>1. LineInv => LineTypeOK
  BY DEF LineInv
<1> QED BY <1>1, LineInvariant, PTL

(* A LINE user never has two active identities, whoever creates, links and *)
(* unlinks them at the same time.                                          *)
THEOREM OneIdentityPerUser == LineSpec => []OneActiveIdentity
<1>1. ASSUME LineInv, NEW u \in LineUsers
      PROVE  Cardinality(ActiveRows(identity, u)) <= 1
  <2>1. \A i, j \in ActiveRows(identity, u) : i = j
    BY <1>1 DEF LineInv, OneRowInSight, AtMostOne
  <2>2. CASE ActiveRows(identity, u) = {}
    BY <2>2, FS_EmptySet
  <2>3. CASE ActiveRows(identity, u) # {}
    <3>1. PICK i : ActiveRows(identity, u) = {i}
      BY <2>1, <2>3
    <3> QED BY <3>1, FS_Singleton
  <2> QED BY <2>2, <2>3
<1>2. LineInv => OneActiveIdentity
  BY <1>1 DEF OneActiveIdentity
<1> QED BY <1>2, LineInvariant, PTL
-------------------------------------------------------------------------------
(* The webhook records deliveries as the log of DeliveryLog does: all the  *)
(* events of one, or none, and no more often than LINE has sent it.        *)
LEMMA StoredByCommits ==
  ASSUME LineInv, [LineNext]_lineVars, stored' # stored
  PROVE  \E s \in Sessions : CommitDelivery(s)
<1>1. LineNext
  BY DEF lineVars
<1>2. ASSUME NEW s \in Webhooks, WebhookStep(s) PROVE CommitDelivery(s)
  BY <1>2 DEF WebhookStep, Ignore, FindIdentity, InsertIdentity, UnlinkIdentity, RejectMessage
<1>3. \A s \in Webhooks, d \in Deliveries : ~Deliver(s, d)
  BY DEF Deliver
<1>4. \A s \in Admins : ~AdminStep(s)
  BY DEF AdminStep, CommitLink, CommitLinkNew, CommitUnlink
<1>5. \A s, u, c : ~ReadForLink(s, u, c)
  BY DEF ReadForLink
<1>6. \A s, i : ~ReadForUnlink(s, i)
  BY DEF ReadForUnlink
<1> QED BY <1>1, <1>2, <1>3, <1>4, <1>5, <1>6, LineSteps DEF Sessions

(* The webhook implements DeliveryLog: a COMMIT records all events of one  *)
(* delivery, and no other step records any.                                *)
THEOREM DeliveriesRecordedWhole == LineSpec => RecordedWhole
<1>1. LineInit => Log!LogInit
  BY DEF LineInit, Log!LogInit
<1>2. LineInv /\ [LineNext]_lineVars => [Log!LogNext]_stored
  <2> SUFFICES ASSUME LineInv, [LineNext]_lineVars, stored' # stored
               PROVE  Log!LogNext
    OBVIOUS
  <2>1. PICK s \in Sessions : CommitDelivery(s)
    BY StoredByCommits
  <2>2. PICK e : e = tx[s].delivery
    OBVIOUS
  <2>3. /\ e \in Deliveries
        /\ \A i \in 1 .. Len(Events[e]) : stored[e][i] < Attempts[e]
        /\ stored' = [stored EXCEPT ![e] = [i \in 1 .. Len(Events[e]) |-> stored[e][i] + 1]]
    BY <2>1, <2>2, CommitShape
  <2>4. [d \in Deliveries |-> Len(Events[d])][e] = Len(Events[e])
    BY <2>3
  <2>5. Log!Handle(e)
    BY <2>3, <2>4 DEF Log!Handle
  <2> QED BY <2>3, <2>5 DEF Log!LogNext
<1> QED BY <1>1, <1>2, LineInvariant, PTL DEF LineSpec, RecordedWhole, Log!LogSpec
-------------------------------------------------------------------------------
(* With one administrator, nothing comes between his reading an identity   *)
(* without a customer and his linking it: webhooks insert rows of their    *)
(* own, or unlink this one.                                                *)
LEMMA LinkBackedKept ==
  ASSUME LineInv, LinkBacked, [LineNext]_lineVars, \A a, b \in Admins : a = b
  PROVE  LinkBacked'
<1> SUFFICES ASSUME NEW a \in Admins, tx'[a].op = "link"
             PROVE  /\ tx'[a].id \in IdentityIds
                    /\ identity'[tx'[a].id] = NoRow \/ identity'[tx'[a].id].customer = "null"
  BY DEF LinkBacked
<1>1. LineTypeOK /\ a \in Sessions /\ a \notin Webhooks
  BY LineAssumption DEF LineInv, Sessions
<1>2. CASE tx'[a] = tx[a] /\ identity' = identity
  BY <1>2 DEF LinkBacked
<1>3. ASSUME NEW s \in Webhooks, WebhookStep(s) \/ \E d \in Deliveries : Deliver(s, d)
      PROVE  tx'[a] = tx[a] /\ (identity' = identity \/ CommitDelivery(s))
  BY <1>1, <1>3
  DEF WebhookStep, Ignore, FindIdentity, InsertIdentity, InsertPending, UnlinkIdentity,
      RejectMessage, CommitDelivery, Deliver, EventDone, Go, Reply, LineTypeOK
<1>4. ASSUME NEW s \in Webhooks, CommitDelivery(s), tx'[a] = tx[a]
      PROVE  /\ tx'[a].id \in IdentityIds
             /\ identity'[tx'[a].id] = NoRow \/ identity'[tx'[a].id].customer = "null"
  <2>1. PICK i \in IdentityIds : i = tx[a].id
    BY <1>4 DEF LinkBacked
  <2>2. /\ Refers(a, i) /\ s \in Sessions /\ s # a /\ identity' = Seen(s)
        /\ identity[i] = NoRow \/ identity[i].customer = "null"
    BY <1>1, <1>4, <2>1 DEF Refers, LinkBacked, CommitDelivery, Sessions
  <2>3. i \in DOMAIN Wrote(s) => Wrote(s)[i] = NoRow
    BY <1>1, <2>2 DEF LineInv, ReferencesHold
  <2>4. identity'[i] = NoRow \/ identity'[i] = identity[i]
    BY <1>1, <2>2, <2>3, SeenShape
  <2> QED BY <1>4, <2>1, <2>2, <2>4
<1>5. ASSUME NEW s \in Admins, NEW u, NEW c, ReadForLink(s, u, c)
      PROVE  /\ tx'[a].id \in IdentityIds
             /\ identity'[tx'[a].id] = NoRow \/ identity'[tx'[a].id].customer = "null"
  <2>1. s = a /\ identity' = identity
    BY <1>5 DEF ReadForLink
  <2>2. ASSUME tx' = [tx EXCEPT ![s] = [op |-> "linkNew", user |-> u, customer |-> c, id |-> NoId]]
        PROVE  FALSE
    BY <1>1, <2>1, <2>2 DEF LineTypeOK
  <2>3. PICK i \in IdentityIds :
          /\ identity[i].customer = "null"
          /\ tx' = [tx EXCEPT ![s] = [op |-> "link", user |-> u, customer |-> c, id |-> i]]
    BY <1>5, <2>2 DEF ReadForLink, ActiveRows
  <2>4. tx'[a] = [op |-> "link", user |-> u, customer |-> c, id |-> i]
    BY <1>1, <2>1, <2>3 DEF LineTypeOK
  <2> QED BY <2>1, <2>3, <2>4
<1>6. ASSUME NEW s \in Admins, NEW i, ReadForUnlink(s, i) PROVE FALSE
  <2>1. /\ s = a
        /\ tx' = [tx EXCEPT ![s] = [op |-> "unlink", user |-> identity[i].user, id |-> i]]
    BY <1>6 DEF ReadForUnlink
  <2> QED BY <1>1, <2>1 DEF LineTypeOK
<1>7. ASSUME NEW s \in Admins, AdminStep(s) PROVE FALSE
  <2>1. s = a /\ Reply(s)
    BY <1>7 DEF AdminStep, CommitLink, CommitLinkNew, CommitUnlink
  <2> QED BY <1>1, <2>1 DEF LineTypeOK, Reply, Idle
<1>8. ASSUME NEW s \in Sessions, Reply(s), UNCHANGED <<identity, stored, attempts>>
      PROVE  tx'[a] = tx[a] /\ identity' = identity
  <2>1. s # a
    BY <1>1, <1>8 DEF LineTypeOK, Reply, Idle
  <2> QED BY <1>1, <1>8, <2>1 DEF LineTypeOK, Reply
<1>9. CASE UNCHANGED lineVars
  BY <1>2, <1>9 DEF lineVars
<1> QED BY <1>2, <1>3, <1>4, <1>5, <1>6, <1>7, <1>8, <1>9, LineSteps

LEMMA LinkKeptByStep ==
  ASSUME LineInv, LinkBacked, [LineNext]_lineVars, NEW i \in IdentityIds,
         identity[i] # NoRow, identity'[i] # NoRow
  PROVE  identity[i].customer \in {"null", identity'[i].customer}
<1>1. LineTypeOK
  BY DEF LineInv
<1>2. CASE identity' = identity
  BY <1>2
<1>3. ASSUME NEW s \in Webhooks, WebhookStep(s), identity' # identity
      PROVE  identity[i].customer \in {"null", identity'[i].customer}
  <2>1. s \in Sessions /\ identity' = Seen(s)
    BY <1>3 DEF WebhookStep, Ignore, FindIdentity, InsertIdentity, UnlinkIdentity, RejectMessage,
                CommitDelivery, Sessions
  <2>2. i \notin DOMAIN Wrote(s)
    <3> SUFFICES ASSUME i \in DOMAIN Wrote(s) PROVE FALSE
      OBVIOUS
    <3>1. Wrote(s)[i] # NoRow
      BY <1>1, <2>1, SeenShape
    <3> QED BY <2>1, <3>1 DEF LineInv, InsertsNew
  <2> QED BY <1>1, <2>1, <2>2, SeenShape
<1>4. ASSUME NEW s \in Admins, CommitLink(s), identity' # identity
      PROVE  identity[i].customer \in {"null", identity'[i].customer}
  <2>1. PICK j : j = tx[s].id
    OBVIOUS
  <2>2. PICK c : c = tx[s].customer
    OBVIOUS
  <2>3. /\ identity' = [identity EXCEPT ![j].customer = c]
        /\ identity[j] = NoRow \/ identity[j].customer = "null"
        /\ identity[j] # NoRow
    BY <1>4, <2>1, <2>2 DEF CommitLink, LinkBacked
  <2>4. i # j => identity'[i] = identity[i]
    BY <1>1, <2>3 DEF LineTypeOK
  <2> QED BY <2>3, <2>4
<1>5. ASSUME NEW s \in Admins, CommitLinkNew(s), identity' # identity
      PROVE  identity[i].customer \in {"null", identity'[i].customer}
  <2>1. PICK j : j = NewId
    OBVIOUS
  <2>2. PICK row : row = [user |-> tx[s].user, customer |-> tx[s].customer]
    OBVIOUS
  <2>3. Fresh # {} /\ identity' = [identity EXCEPT ![j] = row]
    BY <1>5, <2>1, <2>2 DEF CommitLinkNew
  <2>4. i # j
    BY <2>1, <2>3 DEF NewId, Fresh
  <2> QED BY <1>1, <2>3, <2>4 DEF LineTypeOK
<1>6. ASSUME NEW s \in Admins, CommitUnlink(s), identity' # identity
      PROVE  identity[i].customer \in {"null", identity'[i].customer}
  <2>1. PICK j : j = tx[s].id
    OBVIOUS
  <2>2. identity' = [identity EXCEPT ![j] = NoRow]
    BY <1>6, <2>1 DEF CommitUnlink
  <2>3. i # j
    BY <1>1, <2>2 DEF LineTypeOK
  <2> QED BY <1>1, <2>2, <2>3 DEF LineTypeOK
<1>7. ASSUME identity' # identity
      PROVE  \/ \E s \in Webhooks : WebhookStep(s)
             \/ \E s \in Admins : AdminStep(s)
  <2>1. LineNext
    BY <1>7 DEF lineVars
  <2> QED BY <1>7, <2>1, LineSteps DEF Deliver, ReadForLink, ReadForUnlink
<1> QED BY <1>2, <1>3, <1>4, <1>5, <1>6, <1>7 DEF AdminStep

(* With one administrator, an identity is never moved from one customer to *)
(* another: linkIdentityToCustomer's UPDATE finds the row as it was read.  *)
THEOREM LinksKeptByOneAdmin ==
  ASSUME \A a, b \in Admins : a = b
  PROVE  LineSpec => LinkKept
<1>1. LineInit => LinkBacked
  BY DEF LineInit, LinkBacked, Idle, Sessions
<1>2. LineInv /\ LinkBacked /\ [LineNext]_lineVars => LinkBacked'
  BY LinkBackedKept
<1>3. LineInv /\ LinkBacked /\ [LineNext]_lineVars =>
        [\A i \in IdentityIds :
           identity[i] # NoRow /\ identity'[i] # NoRow
           => identity[i].customer \in {"null", identity'[i].customer}]_lineVars
  BY LinkKeptByStep
<1> QED BY <1>1, <1>2, <1>3, LineInvariant, PTL DEF LineSpec, LinkKept
-------------------------------------------------------------------------------
(* What a step does to the requests to link identity i, and to i.          *)
LEMMA ReadsForLink ==
  ASSUME LineTypeOK, NEW a \in Admins, NEW u, NEW c, ReadForLink(a, u, c),
         NEW i \in IdentityIds, identity[i].customer # "null"
  PROVE  Contestants(i)' \subseteq Contestants(i) /\ identity' = identity
<1>1. tx[a] = Idle /\ identity' = identity /\ a \in Sessions
  BY DEF ReadForLink, Sessions
<1>2. CASE tx' = [tx EXCEPT ![a] = [op |-> "linkNew", user |-> u, customer |-> c, id |-> NoId]]
  BY <1>1, <1>2 DEF LineTypeOK, Contestants
<1>3. ASSUME NEW j \in IdentityIds, identity[j].customer = "null",
             tx' = [tx EXCEPT ![a] = [op |-> "link", user |-> u, customer |-> c, id |-> j]]
      PROVE  Contestants(i)' \subseteq Contestants(i)
  <2>1. i # j
    BY <1>3
  <2>2. tx'[a].id # i
    BY <1>1, <1>3, <2>1 DEF LineTypeOK
  <2>3. \A t \in Admins \ {a} : tx'[t] = tx[t]
    BY <1>3 DEF LineTypeOK, Sessions
  <2> QED BY <2>2, <2>3 DEF Contestants
<1> QED BY <1>1, <1>2, <1>3 DEF ReadForLink, ActiveRows

(* A session whose request ends, or that is no administrator, contests no  *)
(* identity it did not contest before.                                     *)
LEMMA OthersContest ==
  ASSUME LineTypeOK, NEW s \in Sessions, NEW i,
         \A t \in Sessions \ {s} : tx'[t] = tx[t],
         s \in Webhooks \/ tx'[s].op # "link"
  PROVE  /\ Contestants(i)' = Contestants(i) \ {s}
BY LineAssumption DEF Contestants, Sessions, LineTypeOK

LEMMA TakeoverByStep ==
  ASSUME LineInv, LineNext, NEW i \in IdentityIds,
         identity[i] # NoRow, identity'[i] # NoRow, identity[i].customer # "null"
  PROVE  /\ Contestants(i)' \subseteq Contestants(i)
         /\ identity'[i].customer # identity[i].customer => Contestants(i)' # Contestants(i)
<1>1. LineTypeOK
  BY DEF LineInv
<1>2. ASSUME NEW s \in Sessions, Reply(s)
      PROVE  Contestants(i)' = Contestants(i) \ {s}
  BY <1>1, <1>2, OthersContest DEF Reply, Idle, LineTypeOK
<1>3. ASSUME NEW s \in Webhooks, WebhookStep(s) \/ \E d \in Deliveries : Deliver(s, d)
      PROVE  /\ Contestants(i)' = Contestants(i) \ {s} /\ s \notin Contestants(i)
             /\ identity' = identity \/ identity' = Seen(s)
  <2>1. \A t \in Sessions \ {s} : tx'[t] = tx[t]
    BY <1>1, <1>3
    DEF WebhookStep, Ignore, FindIdentity, InsertIdentity, InsertPending, UnlinkIdentity,
        RejectMessage, CommitDelivery, Deliver, EventDone, Go, Reply, LineTypeOK
  <2>2. identity' = identity \/ identity' = Seen(s)
    BY <1>3
    DEF WebhookStep, Ignore, FindIdentity, InsertIdentity, UnlinkIdentity, RejectMessage,
        CommitDelivery, Deliver
  <2>3. s \notin Contestants(i) /\ s \in Sessions
    BY LineAssumption DEF Contestants, Sessions
  <2> QED BY <1>1, <2>1, <2>2, <2>3, OthersContest
<1>4. ASSUME NEW s \in Webhooks, WebhookStep(s) \/ \E d \in Deliveries : Deliver(s, d)
      PROVE  identity'[i] = identity[i] /\ Contestants(i)' = Contestants(i)
  <2>1. CASE identity' = Seen(s)
    <3>1. i \notin DOMAIN Wrote(s)
      <4> SUFFICES ASSUME i \in DOMAIN Wrote(s) PROVE FALSE
        OBVIOUS
      <4>1. s \in Sessions /\ Wrote(s)[i] # NoRow
        BY <1>1, <2>1, SeenShape DEF Sessions
      <4> QED BY <4>1 DEF LineInv, InsertsNew
    <3> QED BY <1>1, <1>3, <1>4, <2>1, <3>1, SeenShape DEF Sessions
  <2> QED BY <1>3, <1>4, <2>1
<1>5. ASSUME NEW s \in Admins, NEW l \in Links, ReadForLink(s, l[1], l[2])
      PROVE  Contestants(i)' \subseteq Contestants(i) /\ identity' = identity
  BY <1>1, <1>5, ReadsForLink
<1>6. ASSUME NEW s \in Admins, NEW j \in IdentityIds, ReadForUnlink(s, j)
      PROVE  Contestants(i)' \subseteq Contestants(i) /\ identity' = identity
  <2>1. /\ tx' = [tx EXCEPT ![s] = [op |-> "unlink", user |-> identity[j].user, id |-> j]]
        /\ s \in Sessions /\ identity' = identity
    BY <1>6 DEF ReadForUnlink, Sessions
  <2>2. tx'[s].op # "link" /\ \A t \in Sessions \ {s} : tx'[t] = tx[t]
    BY <1>1, <2>1 DEF LineTypeOK
  <2> QED BY <1>1, <2>1, <2>2, OthersContest
<1>7. ASSUME NEW s \in Admins, CommitLink(s)
      PROVE  /\ Contestants(i)' = Contestants(i) \ {s}
             /\ identity'[i].customer # identity[i].customer => s \in Contestants(i)
  <2>1. s \in Sessions /\ Reply(s) /\ tx[s].op = "link"
    BY <1>7 DEF CommitLink, Sessions
  <2>2. PICK j : j = tx[s].id
    OBVIOUS
  <2>3. PICK c : c = tx[s].customer
    OBVIOUS
  <2>4. identity' = identity \/ identity' = [identity EXCEPT ![j].customer = c]
    BY <1>7, <2>2, <2>3 DEF CommitLink
  <2>5. i # j => identity'[i] = identity[i]
    BY <1>1, <2>4 DEF LineTypeOK
  <2>6. i = j => s \in Contestants(i)
    BY <2>1, <2>2 DEF Contestants
  <2> QED BY <1>2, <2>1, <2>5, <2>6
<1>8. ASSUME NEW s \in Admins, CommitLinkNew(s) \/ CommitUnlink(s)
      PROVE  Contestants(i)' \subseteq Contestants(i) /\ identity'[i] = identity[i]
  <2>1. s \in Sessions /\ Reply(s)
    BY <1>8 DEF CommitLinkNew, CommitUnlink, Sessions
  <2>2. CASE CommitUnlink(s)
    <3>1. PICK j : j = tx[s].id
      OBVIOUS
    <3>2. identity' = [identity EXCEPT ![j] = NoRow]
      BY <2>2, <3>1 DEF CommitUnlink
    <3>3. i # j
      BY <1>1, <3>2 DEF LineTypeOK
    <3> QED BY <1>1, <1>2, <2>1, <3>2, <3>3 DEF LineTypeOK
  <2>3. CASE CommitLinkNew(s)
    <3>1. PICK j : j = NewId
      OBVIOUS
    <3>2. PICK row : row = [user |-> tx[s].user, customer |-> tx[s].customer]
      OBVIOUS
    <3>3. identity' = identity \/ (Fresh # {} /\ identity' = [identity EXCEPT ![j] = row])
      BY <2>3, <3>1, <3>2 DEF CommitLinkNew
    <3>4. Fresh # {} => i # j
      BY <3>1 DEF NewId, Fresh
    <3> QED BY <1>1, <1>2, <2>1, <3>3, <3>4 DEF LineTypeOK
  <2> QED BY <1>8, <2>2, <2>3
<1>9. ASSUME NEW s \in Sessions, Reply(s) /\ UNCHANGED <<identity, stored, attempts>>
      PROVE  Contestants(i)' \subseteq Contestants(i) /\ identity' = identity
  BY <1>2, <1>9
<1> QED BY <1>4, <1>5, <1>6, <1>7, <1>8, <1>9, LineSteps DEF AdminStep

(* However many administrators there are, only one who read an identity    *)
(* before it was linked can give it to another customer, and each of them  *)
(* once: CustomerLineIdentityRepository.js:78-100.                         *)
THEOREM TakeoversAlwaysContested == LineSpec => TakeoversContested
<1>1. LineInv /\ [LineNext]_lineVars =>
        [\A i \in IdentityIds :
           identity[i] # NoRow /\ identity'[i] # NoRow /\ identity[i].customer # "null" =>
             /\ Contestants(i)' \subseteq Contestants(i)
             /\ identity'[i].customer # identity[i].customer
                  => Contestants(i)' # Contestants(i)]_lineVars
  BY TakeoverByStep
<1> QED BY <1>1, LineInvariant, PTL DEF LineSpec, TakeoversContested
===============================================================================

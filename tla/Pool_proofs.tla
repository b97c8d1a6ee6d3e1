----------------------------- MODULE Pool_proofs -----------------------------
(***************************************************************************)
(* Theorems about the accounts of a route, for any number of them: who     *)
(* answers when they race (Racing), and which one a request is given when  *)
(* they do not (Seats).                                                    *)
(***************************************************************************)
EXTENDS Racing, Seats, FiniteSetTheorems, WellFoundedInduction, TLAPS

-----------------------------------------------------------------------------
(***************************************************************************)
(* A race.                                                                 *)
(***************************************************************************)

Inv == TypeOK /\ Reported /\ Racers /\ Undecided /\ FirstDecisiveWins /\ NothingIsMalformed

LEMMA DoneFinite ==
  /\ IsFiniteSet(Done) /\ Cardinality(Done) \in Nat
  /\ \A S \in SUBSET Seats : IsFiniteSet(S) /\ Cardinality(S) \in Nat
<1>1. Done \subseteq Seats
  BY DEF Done
<1> QED
  BY <1>1, RacingAssumption, FS_Subset, FS_CardinalityType

LEMMA InvInit == Init => Inv
<1> SUFFICES ASSUME Init PROVE Inv
  OBVIOUS
<1> USE RacingAssumption DEF Init
<1>1. Done = {} /\ Cardinality(Done) = 0
  <2>1. Done = {}
    BY DEF Done
  <2> QED
    BY <2>1, FS_EmptySet
<1>2. Len(sent) = 0
  OBVIOUS
<1>3. TypeOK
  <2>1. Cardinality(pool) = 0
    BY FS_EmptySet
  <2>2. sent \in Seq(pool) /\ Len(sent) <= Cardinality(pool) /\ heard \in 0..Len(sent)
    BY <1>2, <2>1
  <2>3. /\ pool \in SUBSET Seats
      /\ cancelled \in SUBSET pool /\ chosen \in pool \cup {NoSeat}
      /\ bound \in pool \cup {NoSeat}
    OBVIOUS
  <2>4. /\ pc \in [Seats -> {"off", "call", "commit", "send", "done"}]
        /\ got \in [Seats -> {"none", "ok", "hard", "retry", "error"}]
        /\ feed \in [Seats -> {"none", "waiting", "full", "eof", "broken", "cut", "closed"}]
    OBVIOUS
  <2> QED
    BY <2>2, <2>3, <2>4 DEF TypeOK
<1>4. Reported
  BY <1>1, <1>2 DEF Reported
<1>5. Racers
  BY DEF Racers
<1>6. Undecided /\ FirstDecisiveWins /\ NothingIsMalformed
  BY DEF Undecided, FirstDecisiveWins, NothingIsMalformed
<1> QED
  BY <1>3, <1>4, <1>5, <1>6 DEF Inv

\* A step that neither reports nor receives: the finished racers stay as they are.
LEMMA QuietStep ==
  ASSUME Inv, TypeOK',
         sent' = sent, heard' = heard, pool' = pool, chosen' = chosen,
         verdict' = verdict, bound' = bound,
         at' = at \/ (at = "stream" /\ at' = "over"),
         \A s \in Seats :
           /\ pc'[s] = "off" <=> pc[s] = "off"
           /\ pc'[s] = "done" <=> pc[s] = "done"
           /\ pc[s] = "done" => got'[s] = got[s]
           /\ got'[s] = "error" => s \in Malformed
  PROVE  Inv'
<1>1. Done' = Done
  BY DEF Done
<1>2. \A i \in 1..Len(sent) : sent[i] \in Seats /\ pc[sent[i]] = "done"
  BY DEF Inv, TypeOK, Reported
<1>3. Reported'
  BY <1>1, <1>2 DEF Inv, Reported
<1>4. Racers'
  BY DEF Inv, TypeOK, Racers
<1>5. heard \in 0..Len(sent) /\ Len(sent) \in Nat
  BY DEF Inv, TypeOK
<1>6. \A i \in 1..heard : got'[sent[i]] = got[sent[i]]
  BY <1>2, <1>5
<1>7. Undecided'
  BY <1>5, <1>6 DEF Inv, TypeOK, Undecided, Failed
<1>8. FirstDecisiveWins'
  <2>1. \A i \in 1..(heard - 1) : got'[sent[i]] = got[sent[i]]
    BY <1>5, <1>6
  <2>2. ASSUME verdict \in {"won", "hard"}
        PROVE  heard > 0 /\ chosen = sent[heard] /\ got'[chosen] = got[chosen]
    BY <2>2, <1>5, <1>6 DEF Inv, FirstDecisiveWins
  <2>3. ASSUME verdict \in {"lost", "nothing"}, NEW s \in pool
        PROVE  pc'[s] = "done" /\ Failed(s)'
    BY <2>3 DEF Inv, TypeOK, FirstDecisiveWins, Failed
  <2> QED
    BY <2>1, <2>2, <2>3 DEF Inv, FirstDecisiveWins, Failed
<1>9. NothingIsMalformed'
  BY DEF Inv, NothingIsMalformed
<1> QED
  BY <1>3, <1>4, <1>7, <1>8, <1>9 DEF Inv

LEMMA ReportStep ==
  ASSUME Inv, NEW s \in Seats, Report(s)
  PROVE  Inv'
<1> USE DEF Report, Goto
<1>1. s \in pool /\ s \notin Done /\ sent \in Seq(pool) /\ Len(sent) \in Nat
  BY DEF Inv, TypeOK, Racers, Done
<1>2. sent' \in Seq(pool) /\ Len(sent') = Len(sent) + 1
  BY <1>1
<1>3. \A i \in 1..Len(sent) : sent'[i] = sent[i]
  BY <1>1
<1>4. sent'[Len(sent) + 1] = s
  BY <1>1
<1>5. Done' = Done \cup {s} /\ Done' \subseteq pool
  BY DEF Inv, TypeOK, Racers, Done
<1>6. Cardinality(Done') = Cardinality(Done) + 1
  BY <1>1, <1>5, DoneFinite, FS_AddElement
<1>7. Cardinality(Done') <= Cardinality(pool)
  BY <1>5, DoneFinite, FS_Subset DEF Inv, TypeOK
<1>8. TypeOK'
  <2>1. Len(sent') <= Cardinality(pool)
    BY <1>2, <1>6, <1>7 DEF Inv, Reported
  <2>2. heard' \in 0..Len(sent')
    BY <1>1, <1>2 DEF Inv, TypeOK
  <2> QED
    BY <2>1, <2>2, <1>2 DEF Inv, TypeOK
<1>9. Reported'
  <2>1. Len(sent') = Cardinality(Done')
    BY <1>2, <1>6 DEF Inv, Reported
  <2>2. ASSUME NEW i \in 1..Len(sent') PROVE pc'[sent'[i]] = "done"
    <3>1. CASE i = Len(sent) + 1
      BY <3>1, <1>4 DEF Inv, TypeOK
    <3>2. CASE i \in 1..Len(sent)
      <4>1. sent'[i] \in Seats /\ pc[sent'[i]] = "done"
        BY <3>2, <1>3 DEF Inv, TypeOK, Reported
      <4> QED
        BY <4>1 DEF Inv, TypeOK
    <3> QED
      BY <3>1, <3>2, <1>1, <1>2
  <2>3. ASSUME NEW r \in Done' PROVE \E i \in 1..Len(sent') : sent'[i] = r
    <3>1. CASE r = s
      BY <3>1, <1>1, <1>2, <1>4
    <3>2. CASE r \in Done
      <4>1. PICK i \in 1..Len(sent) : sent[i] = r
        BY <3>2 DEF Inv, Reported
      <4> QED
        BY <4>1, <1>1, <1>2, <1>3
    <3> QED
      BY <3>1, <3>2, <1>5
  <2> QED
    BY <2>1, <2>2, <2>3 DEF Reported
<1>10. Racers'
  <2>1. at # "open"
    BY <1>1 DEF Inv, Racers
  <2> QED
    BY <1>1, <2>1 DEF Inv, TypeOK, Racers
<1>11. heard \in 0..Len(sent)
  BY DEF Inv, TypeOK
<1>12. Undecided'
  BY <1>1, <1>3, <1>11 DEF Inv, Undecided, Failed
<1>13. FirstDecisiveWins'
  <2>1. \A i \in 1..heard : sent'[i] = sent[i]
    BY <1>1, <1>3, <1>11
  <2>2. ASSUME verdict \in {"won", "hard"}
        PROVE  FirstDecisiveWins'
    BY <2>1, <2>2, <1>1, <1>11 DEF Inv, FirstDecisiveWins, Failed
  <2>3. verdict \notin {"lost", "nothing"}
    BY <1>1 DEF Inv, FirstDecisiveWins
  <2>4. bound' = (IF verdict' = "won" THEN chosen' ELSE NoSeat)
    BY DEF Inv, FirstDecisiveWins
  <2> QED
    BY <2>2, <2>3, <2>4 DEF FirstDecisiveWins
<1>14. NothingIsMalformed'
  BY DEF Inv, NothingIsMalformed
<1> QED
  BY <1>8, <1>9, <1>10, <1>12, <1>13, <1>14 DEF Inv

\* A report is received: of the racers nothing changes.
LEMMA ReceiveStep ==
  ASSUME Inv, NEW s \in Seats, Win(s) \/ Surface(s) \/ Skip(s)
  PROVE  Inv'
<1> USE DEF Receive
<1>1. /\ at = "race" /\ heard < Len(sent) /\ s = sent[heard + 1]
      /\ heard' = heard + 1 /\ heard \in Nat /\ Len(sent) \in Nat
      /\ sent' = sent /\ pool' = pool /\ pc' = pc /\ got' = got /\ streaming' = streaming
      /\ feed' = feed /\ gone' = gone
  BY DEF Inv, TypeOK, Win, Surface, Skip, Stop
<1>2. s \in pool
  BY <1>1 DEF Inv, TypeOK
<1>3. TypeOK'
  <2>1. heard' \in 0..Len(sent')
    BY <1>1
  <2>2. chosen' \in pool \cup {NoSeat} /\ bound' \in pool \cup {NoSeat} /\ cancelled' \in SUBSET pool
    BY <1>2 DEF Inv, TypeOK, Win, Surface, Skip, Stop
  <2>3. /\ verdict' \in {"none", "won", "hard", "lost", "nothing", "aborted"}
        /\ at' \in {"open", "sequential", "race", "stream", "over"}
    BY DEF Inv, TypeOK, Win, Surface, Skip, Stop
  <2> QED
    BY <1>1, <2>1, <2>2, <2>3 DEF Inv, TypeOK
<1>4. Reported'
  BY <1>1 DEF Inv, Reported, Done
<1>5. \A i \in 1..heard : Failed(sent[i])
  BY <1>1 DEF Inv, Undecided
<1>6. verdict = "none" /\ (chosen = NoSeat => \A i \in 1..heard : got[sent[i]] = "error")
  BY <1>1 DEF Inv, Racers, Undecided
<1>7. CASE Win(s) \/ Surface(s)
  <2>1. at' \in {"stream", "over"} /\ chosen' = s
    BY <1>7 DEF Win, Surface, Stop
  <2>2. /\ verdict' \in {"won", "hard"}
        /\ bound' = (IF verdict' = "won" THEN s ELSE NoSeat)
        /\ got[s] = (IF verdict' = "won" THEN "ok" ELSE "hard")
    BY <1>6, <1>7 DEF Win, Surface, Stop, Inv, FirstDecisiveWins
  <2>3. heard' > 0 /\ chosen' = sent'[heard'] /\ heard' - 1 = heard
    BY <1>1, <2>1
  <2>4. FirstDecisiveWins'
    BY <1>1, <1>5, <2>1, <2>2, <2>3 DEF FirstDecisiveWins, Failed
  <2> QED
    BY <1>1, <1>3, <1>4, <2>1, <2>2, <2>4
       DEF Inv, Racers, Undecided, NothingIsMalformed
<1>8. CASE Skip(s)
  <2>1. /\ at' = at /\ verdict' = verdict /\ Failed(s)
        /\ chosen' = IF got[s] = "retry" THEN s ELSE chosen
    BY <1>8 DEF Skip, Failed
  <2>2. \A i \in 1..heard' : i \in 1..heard \/ i = heard + 1
    BY <1>1
  <2>3. Undecided'
    <3>1. \A i \in 1..heard' : Failed(sent[i])'
      BY <1>1, <1>5, <2>1, <2>2 DEF Failed
    <3>2. ASSUME chosen' = NoSeat PROVE \A i \in 1..heard' : got'[sent'[i]] = "error"
      <4>1. got[s] = "error" /\ chosen = NoSeat
        BY <2>1, <3>2, RacingAssumption DEF Failed
      <4> QED
        BY <1>1, <1>6, <2>2, <4>1
    <3> QED
      BY <3>1, <3>2, <1>1 DEF Undecided
  <2>4. Racers' /\ NothingIsMalformed'
    BY <1>1, <1>6, <2>1 DEF Inv, Racers, NothingIsMalformed
  <2>5. bound' = NoSeat
    BY <1>6, <1>8 DEF Skip, Inv, FirstDecisiveWins
  <2>6. FirstDecisiveWins'
    BY <1>6, <2>1, <2>5 DEF FirstDecisiveWins
  <2> QED
    BY <1>3, <1>4, <2>3, <2>4, <2>6 DEF Inv
<1> QED
  BY <1>7, <1>8

LEMMA LoseStep == Inv /\ Lose => Inv'
<1> SUFFICES ASSUME Inv, Lose PROVE Inv'
  OBVIOUS
<1> USE DEF Lose, Stop
<1>1. Done \subseteq pool /\ pool \in SUBSET Seats
  BY DEF Inv, TypeOK, Racers, Done
<1>2. Cardinality(Done) = Cardinality(pool)
  <2>1. Cardinality(Done) <= Cardinality(pool)
    BY <1>1, DoneFinite, FS_Subset
  <2> QED
    BY <2>1, <1>1, DoneFinite DEF Inv, TypeOK, Reported
<1>3. Done = pool
  BY <1>1, <1>2, DoneFinite, FS_Subset
<1>4. heard = Len(sent)
  BY <1>2 DEF Inv, Reported
<1>5. ASSUME NEW s \in pool
      PROVE  /\ pc[s] = "done" /\ Failed(s)
             /\ chosen = NoSeat => got[s] = "error"
  <2>1. PICK i \in 1..Len(sent) : sent[i] = s
    BY <1>3 DEF Inv, Reported
  <2> QED
    BY <2>1, <1>3, <1>4 DEF Inv, Undecided, Done
<1>6. TypeOK'
  BY DEF Inv, TypeOK
<1>7. Reported' /\ Racers' /\ Undecided'
  BY DEF Inv, Reported, Racers, Undecided, Done
<1>8. FirstDecisiveWins'
  <2>1. bound = NoSeat
    BY DEF Inv, Racers, FirstDecisiveWins
  <2> QED
    BY <1>5, <2>1 DEF FirstDecisiveWins, Failed
<1>9. NothingIsMalformed'
  BY <1>1, <1>5 DEF Inv, NothingIsMalformed, Racers
<1> QED
  BY <1>6, <1>7, <1>8, <1>9 DEF Inv

LEMMA AbortStep == Inv /\ Abort => Inv'
<1> SUFFICES ASSUME Inv, Abort PROVE Inv'
  OBVIOUS
<1> USE DEF Abort, Stop
<1>1. TypeOK'
  BY DEF Inv, TypeOK
<1>2. Reported'
  BY DEF Inv, Reported, Done
<1>3. Racers' /\ Undecided'
  BY DEF Inv, Racers, Undecided
<1>4. FirstDecisiveWins' /\ NothingIsMalformed'
  BY DEF Inv, Racers, FirstDecisiveWins, NothingIsMalformed
<1> QED
  BY <1>1, <1>2, <1>3, <1>4 DEF Inv

LEMMA OpenStep == Inv /\ Open => Inv'
<1> SUFFICES ASSUME Inv, Open PROVE Inv'
  OBVIOUS
<1> USE DEF Open
<1>1. /\ sent = <<>> /\ heard = 0 /\ chosen = NoSeat /\ bound = NoSeat
      /\ verdict = "none" /\ at = "open"
  BY DEF Inv, Racers
<1>2. pool' \in SUBSET Seats /\ cancelled' = {}
  BY DEF Inv, TypeOK, Racers
<1>3. Done' = {} /\ Cardinality({}) = 0 /\ Cardinality(pool') \in Nat
  BY <1>2, DoneFinite, FS_EmptySet DEF Done
<1>4. sent' = <<>> /\ sent' \in Seq(pool') /\ Len(sent') = 0
  BY <1>1
<1>5. TypeOK'
  <2>1. /\ sent' \in Seq(pool') /\ Len(sent') <= Cardinality(pool')
        /\ heard' \in 0..Len(sent')
    BY <1>1, <1>3, <1>4
  <2>2. /\ chosen' \in pool' \cup {NoSeat} /\ bound' \in pool' \cup {NoSeat}
        /\ pool' \in SUBSET Seats /\ cancelled' \in SUBSET pool'
    BY <1>1, <1>2
  <2>3. pc' \in [Seats -> {"off", "call", "commit", "send", "done"}]
    OBVIOUS
  <2>4. at' \in {"sequential", "race"}
    OBVIOUS
  <2> QED
    BY <2>1, <2>2, <2>3, <2>4 DEF Inv, TypeOK
<1>6. Reported'
  BY <1>3, <1>4 DEF Reported
<1>7. Racers'
  BY <1>1, <1>4 DEF Inv, Racers
<1>8. heard' = 0 /\ verdict' = "none" /\ bound' = NoSeat
  BY <1>1
<1>9. Undecided'
  BY <1>8 DEF Undecided
<1>10. FirstDecisiveWins' /\ NothingIsMalformed'
  BY <1>8 DEF FirstDecisiveWins, NothingIsMalformed
<1> QED
  BY <1>5, <1>6, <1>7, <1>9, <1>10 DEF Inv

LEMMA InvNext == Inv /\ [Next]_vars => Inv'
<1> SUFFICES ASSUME Inv, [Next]_vars PROVE Inv'
  OBVIOUS
<1> USE DEF race
<1>1. ASSUME NEW s \in Seats, Arrive(s) \/ End(s) \/ Cut(s) PROVE Inv'
  <2>1. TypeOK'
    BY <1>1 DEF Arrive, End, Cut, Feeds, Inv, TypeOK
  <2> QED
    BY <1>1, <2>1, QuietStep DEF Arrive, End, Cut, Feeds, Inv, Racers
<1>2. ASSUME NEW s \in Seats, Call(s) PROVE Inv'
  <2>1. TypeOK'
    BY <1>2 DEF Call, Goto, Results, Inv, TypeOK
  <2> QED
    BY <1>2, <2>1, QuietStep DEF Call, Goto, Results, Inv, TypeOK, Racers
<1>3. ASSUME NEW s \in Seats, Commit(s) PROVE Inv'
  <2>1. TypeOK'
    BY <1>3 DEF Commit, Goto, Inv, TypeOK
  <2> QED
    BY <1>3, <2>1, QuietStep DEF Commit, Goto, Inv, TypeOK, Racers
<1>4. ASSUME NEW s \in Seats, Flunk(s) PROVE Inv'
  <2>1. TypeOK'
    BY <1>4 DEF Flunk, Goto, Inv, TypeOK
  <2> QED
    BY <1>4, <2>1, QuietStep DEF Flunk, Goto, Inv, TypeOK, Racers
<1>5. CASE HangUp
  <2>1. TypeOK'
    BY <1>5 DEF HangUp, Inv, TypeOK
  <2> QED
    BY <1>5, <2>1, QuietStep DEF HangUp, Inv, Racers
<1>6. CASE Read
  <2>1. TypeOK'
    BY <1>6 DEF Read, Feeds, Inv, TypeOK
  <2> QED
    BY <1>6, <2>1, QuietStep DEF Read, Feeds, Inv, Racers
<1>7. CASE Close
  <2>1. TypeOK'
    BY <1>7 DEF Close, Inv, TypeOK
  <2> QED
    BY <1>7, <2>1, QuietStep DEF Close, Inv, Racers
<1>8. CASE Finished \/ UNCHANGED vars
  <2>1. TypeOK'
    BY <1>8 DEF Finished, vars, Inv, TypeOK
  <2> QED
    BY <1>8, <2>1, QuietStep DEF Finished, vars, Inv, Racers
<1> QED
  BY <1>1, <1>2, <1>3, <1>4, <1>5, <1>6, <1>7, <1>8,
     ReportStep, ReceiveStep, LoseStep, AbortStep, OpenStep DEF Next

LEMMA Always == Spec => []Inv
  BY InvInit, InvNext, PTL DEF Spec

\* Every variable keeps its type, and each racer reports once at most.
THEOREM TypeCorrect == Spec => []TypeOK
<1>1. Inv => TypeOK
  BY DEF Inv
<1> QED
  BY Always, <1>1, PTL

\* The first success or hard error reported answers the race, and a race is
\* lost only when the whole pool has failed.
THEOREM FirstAnswers == Spec => []FirstDecisiveWins
<1>1. Inv => FirstDecisiveWins
  BY DEF Inv
<1> QED
  BY Always, <1>1, PTL

\* A race comes to neither a result nor an error on malformed URLs only.
THEOREM NothingOnBadUrls == Spec => []NothingIsMalformed
<1>1. Inv => NothingIsMalformed
  BY DEF Inv
<1> QED
  BY Always, <1>1, PTL

-----------------------------------------------------------------------------
(***************************************************************************)
(* Lists.  The models' recursive functions walk a list from its first      *)
(* position; what they return follows by taking the least position where   *)
(* it would not hold.                                                      *)
(***************************************************************************)

\* A set of naturals has a least one: what the inductions below rest on.
LEMMA Least ==
  ASSUME NEW T \in SUBSET Nat, T # {}
  PROVE  \E n \in T : \A m \in T : n <= m
<1>1. IsWellFoundedOn(OpToRel(<, Nat), Nat)
  BY NatLessThanWellFounded
<1>2. PICK n \in T : \A m \in T : <<m, n>> \notin OpToRel(<, Nat)
  BY <1>1, WFMin
<1>3. \A m \in T : ~(m < n)
  BY <1>2 DEF OpToRel
<1>4. \A m \in T : m \in Nat
  OBVIOUS
<1> QED BY <1>3, <1>4

Distinct(s) == \A i, j \in DOMAIN s : s[i] = s[j] => i = j

\* The list the loop of Only builds, element by element.
Loop(s, S, n, f) ==
  f = [i \in 0..n |-> IF i = 0 THEN <<>>
                      ELSE IF s[i] \in S THEN Append(f[i - 1], s[i]) ELSE f[i - 1]]

LEMMA LoopExists ==
  ASSUME NEW s, NEW S, NEW len \in Nat
  PROVE  \E f : Loop(s, S, len, f)
<1> DEFINE T == {n \in Nat : ~\E f : Loop(s, S, n, f)}
<1>1. SUFFICES ASSUME T # {} PROVE FALSE
  OBVIOUS
<1>2. PICK n \in T : \A m \in T : n <= m
  <2>1. T \in SUBSET Nat
    OBVIOUS
  <2> HIDE DEF T
  <2> QED BY <1>1, <2>1, Least
<1>3. CASE n = 0
  <2> DEFINE f == [i \in 0..0 |-> <<>>]
  <2>1. Loop(s, S, 0, f)
    BY DEF Loop
  <2> QED BY <1>2, <1>3, <2>1
<1>4. CASE n # 0
  <2>1. n \in Nat /\ n - 1 \in Nat /\ n - 1 \notin T
    BY <1>2, <1>4
  <2>2. PICK g : Loop(s, S, n - 1, g)
    BY <2>1
  <2> DEFINE f == [i \in 0..n |->
                     IF i < n THEN g[i]
                     ELSE IF s[n] \in S THEN Append(g[n - 1], s[n]) ELSE g[n - 1]]
  <2>3. \A i \in 0..(n - 1) :
          g[i] = IF i = 0 THEN <<>>
                 ELSE IF s[i] \in S THEN Append(g[i - 1], s[i]) ELSE g[i - 1]
    BY <2>2 DEF Loop
  <2>4. \A i \in 0..n :
          f[i] = IF i = 0 THEN <<>>
                 ELSE IF s[i] \in S THEN Append(f[i - 1], s[i]) ELSE f[i - 1]
    <3> TAKE i \in 0..n
    <3>1. CASE i < n
      <4>1. f[i] = g[i] /\ (i > 0 => f[i - 1] = g[i - 1])
        BY <2>1, <3>1
      <4> QED BY <2>1, <2>3, <3>1, <4>1
    <3>2. CASE i = n
      <4>1. f[n - 1] = g[n - 1]
        BY <2>1
      <4> QED BY <1>4, <2>1, <3>2, <4>1
    <3> QED BY <2>1, <3>1, <3>2
  <2>5. Loop(s, S, n, f)
    BY <2>4 DEF Loop
  <2> QED BY <1>2, <2>5
<1> QED BY <1>3, <1>4

LEMMA OnlyLoop ==
  ASSUME NEW s, NEW S, Len(s) \in Nat
  PROVE  \E out :
           /\ Only(s, S) = out[Len(s)] /\ out[0] = <<>>
           /\ \A i \in 1..Len(s) :
                out[i] = IF s[i] \in S THEN Append(out[i - 1], s[i]) ELSE out[i - 1]
<1> DEFINE out == CHOOSE f : Loop(s, S, Len(s), f)
<1>1. Loop(s, S, Len(s), out)
  BY LoopExists
<1>2. Only(s, S) = out[Len(s)]
  BY DEF Only, Loop
<1> HIDE DEF out
<1>3. \A i \in 0..Len(s) :
        out[i] = IF i = 0 THEN <<>>
                 ELSE IF s[i] \in S THEN Append(out[i - 1], s[i]) ELSE out[i - 1]
  BY <1>1 DEF Loop
<1>4. /\ out[0] = <<>>
      /\ \A i \in 1..Len(s) :
           out[i] = IF s[i] \in S THEN Append(out[i - 1], s[i]) ELSE out[i - 1]
  BY <1>3
<1> QED BY <1>2, <1>4

\* What Only returns: the members of S, and each as often as it was there.
LEMMA OnlyIs ==
  ASSUME NEW X, NEW s \in Seq(X), NEW S
  PROVE  /\ Only(s, S) \in Seq(X)
         /\ ToSet(Only(s, S)) = ToSet(s) \cap S
         /\ Distinct(s) => Distinct(Only(s, S))
<1>0. Len(s) \in Nat /\ DOMAIN s = 1..Len(s) /\ \A i \in 1..Len(s) : s[i] \in X
  OBVIOUS
<1>1. PICK out : /\ Only(s, S) = out[Len(s)] /\ out[0] = <<>>
                 /\ \A i \in 1..Len(s) :
                      out[i] = IF s[i] \in S THEN Append(out[i - 1], s[i]) ELSE out[i - 1]
  BY <1>0, OnlyLoop
<1> DEFINE Good(n) ==
             /\ out[n] \in Seq(X)
             /\ ToSet(out[n]) = {s[i] : i \in 1..n} \cap S
             /\ Distinct(s) => Distinct(out[n])
           T == {n \in 0..Len(s) : ~Good(n)}
<1>2. SUFFICES ASSUME NEW k \in 0..Len(s), ~Good(k) PROVE FALSE
  <2>1. Good(Len(s))
    <3> HIDE DEF Good
    <3> QED BY <1>0, <1>2
  <2>2. ToSet(s) = {s[i] : i \in 1..Len(s)}
    BY <1>0 DEF ToSet
  <2> QED BY <1>1, <2>1, <2>2
<1>3. PICK n \in T : \A m \in T : n <= m
  <2>1. T \in SUBSET Nat
    BY <1>0
  <2>2. k \in T
    BY <1>2
  <2> HIDE DEF T
  <2> QED BY <2>1, <2>2, Least
<1>4. n # 0
  <2>1. out[0] \in Seq(X) /\ ToSet(out[0]) = {} /\ Distinct(out[0])
    BY <1>1 DEF ToSet, Distinct
  <2>2. {s[i] : i \in 1..0} = {}
    <3>1. 1..0 = {}
      OBVIOUS
    <3> QED BY <3>1
  <2>3. Good(0)
    BY <2>1, <2>2
  <2> QED BY <1>3, <2>3
<1>5. n \in 1..Len(s) /\ n - 1 \in 0..Len(s) /\ n - 1 \notin T
  <2>1. n \in 0..Len(s)
    BY <1>3
  <2> HIDE DEF T
  <2> QED BY <1>0, <1>3, <1>4, <2>1
<1>6. Good(n - 1)
  BY <1>5
<1>7. {s[i] : i \in 1..n} = {s[i] : i \in 1..(n - 1)} \cup {s[n]}
  BY <1>5
<1>8. CASE s[n] \notin S
  <2>1. out[n] = out[n - 1]
    BY <1>1, <1>5, <1>8
  <2>2. Good(n)
    BY <1>6, <1>7, <1>8, <2>1
  <2> QED BY <1>3, <2>2
<1>9. CASE s[n] \in S
  <2> DEFINE t == out[n - 1]
  <2>1. out[n] = Append(t, s[n]) /\ t \in Seq(X) /\ s[n] \in X
    BY <1>0, <1>1, <1>5, <1>6, <1>9
  <2> HIDE DEF t
  <2>2. /\ Len(t) \in Nat /\ DOMAIN t = 1..Len(t) /\ DOMAIN Append(t, s[n]) = 1..(Len(t) + 1)
        /\ Append(t, s[n])[Len(t) + 1] = s[n] /\ Append(t, s[n]) \in Seq(X)
        /\ \A i \in 1..Len(t) : Append(t, s[n])[i] = t[i]
    BY <2>1
  <2>3. ToSet(Append(t, s[n])) = ToSet(t) \cup {s[n]}
    BY <2>2 DEF ToSet
  <2>4. ToSet(t) = {s[i] : i \in 1..(n - 1)} \cap S /\ (Distinct(s) => Distinct(t))
    BY <1>6 DEF t
  <2>5. ASSUME Distinct(s) PROVE Distinct(Append(t, s[n]))
    <3>1. s[n] \notin ToSet(t)
      BY <1>0, <1>5, <2>4, <2>5 DEF Distinct
    <3>2. \A i \in 1..Len(t) : t[i] # s[n]
      BY <2>2, <3>1 DEF ToSet
    <3> QED BY <2>2, <2>4, <2>5, <3>2 DEF Distinct
  <2>6. ToSet(out[n]) = {s[i] : i \in 1..n} \cap S
    BY <1>7, <1>9, <2>1, <2>3, <2>4
  <2>7. Good(n)
    BY <2>1, <2>2, <2>5, <2>6
  <2> QED BY <1>3, <2>7
<1> QED BY <1>8, <1>9

-----------------------------------------------------------------------------
(***************************************************************************)
(* The loop of the strategies, and arithmetic of a counter modulo a        *)
(* length.                                                                 *)
(***************************************************************************)

\* The seats the loop of BestOf holds, one after the other.
Chain(s, better, n, f) ==
  f = [i \in 1..n |-> IF i = 1 THEN s[1]
                      ELSE IF <<s[i], f[i - 1]>> \in better THEN s[i] ELSE f[i - 1]]

LEMMA ChainExists ==
  ASSUME NEW s, NEW better, NEW len \in Nat
  PROVE  \E f : Chain(s, better, len, f)
<1> DEFINE T == {n \in Nat : ~\E f : Chain(s, better, n, f)}
<1>1. SUFFICES ASSUME T # {} PROVE FALSE
  OBVIOUS
<1>2. PICK n \in T : \A m \in T : n <= m
  <2>1. T \in SUBSET Nat
    OBVIOUS
  <2> HIDE DEF T
  <2> QED BY <1>1, <2>1, Least
<1>3. CASE n = 0
  <2> DEFINE f == [i \in 1..0 |-> s[1]]
  <2>1. Chain(s, better, 0, f)
    BY DEF Chain
  <2> QED BY <1>2, <1>3, <2>1
<1>4. CASE n # 0
  <2>1. n \in Nat /\ n - 1 \in Nat /\ n - 1 \notin T
    BY <1>2, <1>4
  <2>2. PICK g : Chain(s, better, n - 1, g)
    BY <2>1
  <2> DEFINE f == [i \in 1..n |->
                     IF i < n THEN g[i]
                     ELSE IF n = 1 THEN s[1]
                     ELSE IF <<s[n], g[n - 1]>> \in better THEN s[n] ELSE g[n - 1]]
  <2>3. \A i \in 1..(n - 1) :
          g[i] = IF i = 1 THEN s[1]
                 ELSE IF <<s[i], g[i - 1]>> \in better THEN s[i] ELSE g[i - 1]
    BY <2>2 DEF Chain
  <2>4. \A i \in 1..n :
          f[i] = IF i = 1 THEN s[1]
                 ELSE IF <<s[i], f[i - 1]>> \in better THEN s[i] ELSE f[i - 1]
    <3> TAKE i \in 1..n
    <3>1. CASE i < n
      <4>1. i \in 1..(n - 1) /\ f[i] = g[i] /\ (i # 1 => f[i - 1] = g[i - 1])
        BY <2>1, <3>1
      <4> HIDE DEF f
      <4> QED BY <2>3, <4>1
    <3>2. CASE i = n
      <4>1. n # 1 => n - 1 \in 1..n /\ f[n - 1] = g[n - 1]
        BY <1>4, <2>1
      <4>2. f[n] = IF n = 1 THEN s[1]
                   ELSE IF <<s[n], g[n - 1]>> \in better THEN s[n] ELSE g[n - 1]
        BY <2>1, <3>2
      <4> HIDE DEF f
      <4> QED BY <3>2, <4>1, <4>2
    <3> QED BY <2>1, <3>1, <3>2
  <2>5. Chain(s, better, n, f)
    BY <2>4 DEF Chain
  <2> QED BY <1>2, <2>5
<1> QED BY <1>3, <1>4

\* BestOf returns one of the seats, and none of them beats it, whenever what
\* beats what is a strict order.
LEMMA BestIs ==
  ASSUME NEW X, NEW s \in Seq(X), s # <<>>, NEW better,
         \A a \in X : <<a, a>> \notin better,
         \A a, b, c \in X : <<a, b>> \in better /\ <<b, c>> \in better => <<a, c>> \in better
  PROVE  /\ BestOf(s, better) \in ToSet(s)
         /\ \A a \in ToSet(s) : <<a, BestOf(s, better)>> \notin better
<1>0. /\ Len(s) \in Nat /\ Len(s) > 0 /\ DOMAIN s = 1..Len(s)
      /\ \A i \in 1..Len(s) : s[i] \in X
  OBVIOUS
<1> DEFINE best == CHOOSE f : Chain(s, better, Len(s), f)
<1>1. Chain(s, better, Len(s), best)
  BY <1>0, ChainExists
<1>2. BestOf(s, better) = best[Len(s)]
  BY DEF BestOf, Chain
<1> HIDE DEF best
<1>3. \A i \in 1..Len(s) :
        best[i] = IF i = 1 THEN s[1]
                  ELSE IF <<s[i], best[i - 1]>> \in better THEN s[i] ELSE best[i - 1]
  BY <1>1 DEF Chain
<1> DEFINE Good(n) ==
             /\ \E j \in 1..n : best[n] = s[j]
             /\ \A j \in 1..n : <<s[j], best[n]>> \notin better
           T == {n \in 1..Len(s) : ~Good(n)}
<1>4. SUFFICES ASSUME NEW k \in 1..Len(s), ~Good(k) PROVE FALSE
  <2>1. Good(Len(s))
    <3> HIDE DEF Good
    <3> QED BY <1>0, <1>4
  <2> QED BY <1>0, <1>2, <2>1 DEF ToSet
<1>5. PICK n \in T : \A m \in T : n <= m
  <2>1. T \in SUBSET Nat /\ k \in T
    BY <1>0, <1>4
  <2> HIDE DEF T
  <2> QED BY <2>1, Least
<1>6. n # 1
  <2>1. 1 \in 1..Len(s)
    BY <1>0
  <2>3. best[1] = s[1] /\ s[1] \in X
    BY <1>0, <1>3, <2>1
  <2>4. 1 \in 1..1 /\ \A j \in 1..1 : j = 1
    OBVIOUS
  <2>2. Good(1)
    BY <2>3, <2>4
  <2> QED BY <1>5, <2>2
<1>7. n \in 1..Len(s) /\ n - 1 \in 1..Len(s) /\ n - 1 \notin T
  <2>1. n \in 1..Len(s)
    BY <1>5
  <2> HIDE DEF T
  <2> QED BY <1>0, <1>5, <1>6, <2>1
<1>8. Good(n - 1)
  BY <1>7
<1>9. PICK b \in 1..(n - 1) : best[n - 1] = s[b]
  BY <1>8
<1>10. b \in 1..n /\ s[b] \in X /\ s[n] \in X /\ \A j \in 1..n : s[j] \in X /\ (j \in 1..(n - 1) \/ j = n)
  BY <1>0, <1>7, <1>9
<1>11. best[n] = IF <<s[n], s[b]>> \in better THEN s[n] ELSE s[b]
  BY <1>3, <1>6, <1>7, <1>9
<1>12. \A j \in 1..(n - 1) : <<s[j], s[b]>> \notin better
  BY <1>8, <1>9
<1>13. Good(n)
  <2>1. CASE <<s[n], s[b]>> \in better
    <3>1. best[n] = s[n] /\ n \in 1..n
      BY <1>7, <1>11, <2>1
    <3>2. ASSUME NEW j \in 1..n PROVE <<s[j], s[n]>> \notin better
      BY <1>10, <1>12, <2>1
    <3> QED BY <3>1, <3>2
  <2>2. CASE <<s[n], s[b]>> \notin better
    BY <1>10, <1>11, <1>12, <2>2
  <2> QED BY <2>1, <2>2
<1> QED BY <1>5, <1>13

LEMMA Quotient ==
  ASSUME NEW a \in Nat, NEW b \in Nat \ {0}
  PROVE  /\ a \div b \in Nat /\ a % b \in 0..(b - 1)
         /\ a = b * (a \div b) + (a % b)
  OBVIOUS

LEMMA QuotientFalls ==
  ASSUME NEW a \in Nat, NEW b \in Nat \ {0}, NEW c \in Nat, b <= c
  PROVE  a \div c <= a \div b
  OBVIOUS

LEMMA OneRemainder ==
  ASSUME NEW b \in Nat \ {0}, NEW p \in Nat, NEW q \in Nat,
         NEW r \in 0..(b - 1), NEW s \in 0..(b - 1), b * p + r = b * q + s
  PROVE  r = s
<1>1. CASE p < q
  <2>1. b * q >= b * (p + 1) /\ b * (p + 1) = b * p + b
    BY <1>1
  <2> QED BY <2>1
<1>2. CASE q < p
  <2>1. b * p >= b * (q + 1) /\ b * (q + 1) = b * q + b
    BY <1>2
  <2> QED BY <2>1
<1>3. CASE p = q
  BY <1>3
<1> QED BY <1>1, <1>2, <1>3

\* The counter modulo the length goes round.
LEMMA GoesRound ==
  ASSUME NEW a \in Nat, NEW b \in Nat \ {0}
  PROVE  (a + 1) % b = IF (a % b) + 1 = b THEN 0 ELSE (a % b) + 1
<1> DEFINE q == a \div b
           r == a % b
           p == (a + 1) \div b
           t == (a + 1) % b
<1>1. q \in Nat /\ r \in 0..(b - 1) /\ a = b * q + r
  BY Quotient
<1>2. p \in Nat /\ t \in 0..(b - 1) /\ a + 1 = b * p + t
  <2>1. a + 1 \in Nat
    OBVIOUS
  <2> QED BY <2>1, Quotient
<1> HIDE DEF q, r, p, t
<1>3. CASE r + 1 = b
  <2>1. b * (q + 1) + 0 = b * p + t /\ 0 \in 0..(b - 1) /\ q + 1 \in Nat
    BY <1>1, <1>2, <1>3
  <2> QED BY <1>2, <1>3, <2>1, OneRemainder DEF r, t
<1>4. CASE r + 1 # b
  <2>1. b * q + (r + 1) = b * p + t /\ r + 1 \in 0..(b - 1)
    BY <1>1, <1>2, <1>4
  <2> QED BY <1>1, <1>2, <1>4, <2>1, OneRemainder DEF r, t
<1> QED BY <1>3, <1>4

-----------------------------------------------------------------------------
(***************************************************************************)
(* What each strategy returns.                                             *)
(***************************************************************************)

TypedSeats ==
  /\ TypeOKSeats
  /\ list \in [Requests -> Seq(Seats)] /\ seat \in [Requests -> Seats \cup {Nobody}]
  /\ turn <= picks /\ \A a \in Seats : turns[a] <= picks

LEMMA CastIs ==
  ASSUME cast \in Casts
  PROVE  /\ strategy \in Strategies /\ cast.requests \subseteq Requests
         /\ cast.writes \in Nat /\ cast.picks \in Nat
<1>1. cast \in [strategy : Strategies, requests : SUBSET Requests, writes : Nat, picks : Nat]
  BY SeatsAssumption DEF SeatsAssumption
<1> QED BY <1>1 DEF strategy

\* What a list holds, and that it holds nothing twice.
LEMMA Members ==
  ASSUME NEW s \in Seq(Seats)
  PROVE  /\ ToSet(s) \subseteq Seats /\ (s = <<>> <=> ToSet(s) = {})
         /\ \A i \in 1..Len(s) : s[i] \in ToSet(s)
<1>1. Len(s) \in Nat /\ DOMAIN s = 1..Len(s) /\ \A i \in 1..Len(s) : s[i] \in Seats
  OBVIOUS
<1>2. s # <<>> => 1 \in 1..Len(s)
  OBVIOUS
<1>3. s = <<>> => DOMAIN s = {}
  OBVIOUS
<1> QED BY <1>1, <1>2, <1>3 DEF ToSet

\* A list put in two groups holds what it held, and each as often.
LEMMA Regrouped ==
  ASSUME NEW s \in Seq(Seats), NEW S, NEW T, S \cap T = {}, Seats \subseteq S \cup T
  PROVE  LET t == Only(s, S) \o Only(s, T)
         IN  t \in Seq(Seats) /\ ToSet(t) = ToSet(s) /\ (Distinct(s) => Distinct(t))
<1> DEFINE u == Only(s, S)
           v == Only(s, T)
           t == u \o v
<1>1. /\ u \in Seq(Seats) /\ ToSet(u) = ToSet(s) \cap S /\ (Distinct(s) => Distinct(u))
      /\ v \in Seq(Seats) /\ ToSet(v) = ToSet(s) \cap T /\ (Distinct(s) => Distinct(v))
  BY OnlyIs
<1> HIDE DEF u, v
<1>2. /\ Len(u) \in Nat /\ Len(v) \in Nat /\ DOMAIN u = 1..Len(u) /\ DOMAIN v = 1..Len(v)
      /\ t \in Seq(Seats) /\ DOMAIN t = 1..(Len(u) + Len(v))
      /\ \A i \in 1..Len(u) : t[i] = u[i]
      /\ \A i \in (Len(u) + 1)..(Len(u) + Len(v)) : t[i] = v[i - Len(u)]
  BY <1>1
<1> HIDE DEF t
<1>3. \A i \in DOMAIN t : (i \in DOMAIN u /\ t[i] = u[i])
                          \/ (i - Len(u) \in DOMAIN v /\ t[i] = v[i - Len(u)])
  BY <1>2
<1>4. /\ \A i \in DOMAIN u : i \in DOMAIN t /\ t[i] = u[i]
      /\ \A i \in DOMAIN v : i + Len(u) \in DOMAIN t /\ t[i + Len(u)] = v[i]
  BY <1>2
<1>5. ToSet(t) = ToSet(u) \cup ToSet(v)
  BY <1>3, <1>4 DEF ToSet
<1>6. ToSet(s) \subseteq Seats
  BY Members
<1>7. ToSet(t) = ToSet(s)
  BY <1>1, <1>5, <1>6
<1>8. ASSUME Distinct(s) PROVE Distinct(t)
  <2>1. \A i \in DOMAIN u, j \in DOMAIN v : u[i] # v[j]
    BY <1>1 DEF ToSet
  <2>2. /\ \A i, j \in DOMAIN u : u[i] = u[j] => i = j
        /\ \A i, j \in DOMAIN v : v[i] = v[j] => i = j
    BY <1>1, <1>8 DEF Distinct
  <2> SUFFICES ASSUME NEW i \in DOMAIN t, NEW j \in DOMAIN t, t[i] = t[j] PROVE i = j
    BY DEF Distinct
  <2>3. i \in Int /\ j \in Int /\ Len(u) \in Int
    BY <1>2
  <2>4. i - Len(u) = j - Len(u) => i = j
    BY <2>3
  <2> QED BY <1>3, <2>1, <2>2, <2>4
<1> QED BY <1>2, <1>7, <1>8 DEF t, u, v

LEMMA ChoiceIs ==
  ASSUME TypedSeats, NEW r \in Requests
  PROVE  /\ Choice(r) \in Seq(Seats) /\ ToSet(Choice(r)) = ToSet(list[r])
         /\ Distinct(Choice(r)) /\ (list[r] # <<>> => Choice(r) # <<>>)
<1> DEFINE t == PreferAccount(list[r], stuck[r])
<1>1. /\ list[r] \in Seq(Seats) /\ Distinct(list[r]) /\ failing \subseteq Seats
  BY DEF TypedSeats, TypeOKSeats, Distinct
<1>2. t \in Seq(Seats) /\ ToSet(t) = ToSet(list[r]) /\ Distinct(t)
  <2> DEFINE S == {stuck[r]}
             T == Seats \ {stuck[r]}
  <2>1. S \cap T = {} /\ Seats \subseteq S \cup T
    OBVIOUS
  <2>2. t = Only(list[r], S) \o Only(list[r], T)
    BY DEF PreferAccount
  <2> HIDE DEF S, T, t
  <2> QED BY <1>1, <2>1, <2>2, Regrouped
<1>3. /\ Choice(r) \in Seq(Seats) /\ ToSet(Choice(r)) = ToSet(t) /\ Distinct(Choice(r))
  <2> DEFINE S == Seats \ failing
  <2>1. S \cap failing = {} /\ Seats \subseteq S \cup failing
    OBVIOUS
  <2>2. Choice(r) = Only(t, S) \o Only(t, failing)
    BY DEF Choice, PreferFresh
  <2> HIDE DEF S, t
  <2> QED BY <1>2, <2>1, <2>2, Regrouped
<1>4. list[r] # <<>> => Choice(r) # <<>>
  BY <1>1, <1>2, <1>3, Members
<1> QED BY <1>2, <1>3, <1>4

\* The most left in the mirror; of these, the earliest reset.
LEMMA QuotaAwareIs ==
  ASSUME NEW s \in Seq(Seats), s # <<>>, NEW row \in [Seats -> Rows]
  PROVE  /\ QuotaAware(s, row) \in ToSet(s)
         /\ \A a \in ToSet(s) : ~Fuller(row[a].mirror, row[QuotaAware(s, row)].mirror)
<1> DEFINE better == {p \in Seats \X Seats : Fuller(row[p[1]].mirror, row[p[2]].mirror)}
<1>1. \A a, b \in Seats : <<a, b>> \in better <=> Fuller(row[a].mirror, row[b].mirror)
  OBVIOUS
<1>2. \A a \in Seats : row[a].mirror.pct \in Int /\ row[a].mirror.reset \in Int
  BY SeatsAssumption DEF SeatsAssumption, Rows, Quotas, Never, Unknown
<1>3. BestOf(s, better) = QuotaAware(s, row)
  BY DEF QuotaAware
<1>4. ASSUME NEW a \in Seats PROVE <<a, a>> \notin better
  <2>1. ~Fuller(row[a].mirror, row[a].mirror)
    BY <1>2 DEF Fuller
  <2> QED BY <2>1
<1> HIDE DEF better
<1>5. \A a, b, c \in Seats : <<a, b>> \in better /\ <<b, c>> \in better => <<a, c>> \in better
  BY <1>1, <1>2 DEF Fuller
<1>6. /\ BestOf(s, better) \in ToSet(s)
      /\ \A a \in ToSet(s) : <<a, BestOf(s, better)>> \notin better
  BY <1>4, <1>5, BestIs
<1>7. ToSet(s) \subseteq Seats
  BY Members
<1> QED BY <1>1, <1>3, <1>6, <1>7

LEMMA WindowIs ==
  ASSUME NEW row \in [Seats -> Rows], NEW a \in Seats
  PROVE  /\ WindowQuota(row[a]) \in Quotas
         /\ WindowQuota(row[a]).pct \in -1..MaxPct /\ WindowQuota(row[a]).reset \in 0..Never
         /\ MaxPct \in Nat \ {0} /\ Never \in Nat /\ Never > 0
  BY SeatsAssumption DEF SeatsAssumption, WindowQuota, Rows, Quotas, Never, Unknown

\* The earliest reset among those with something left; without any, the quota.
LEMMA ResetSoonIs ==
  ASSUME NEW s \in Seq(Seats), s # <<>>, NEW row \in [Seats -> Rows]
  PROVE  LET c == ResetSoon(s, row)
             q(a) == WindowQuota(row[a])
         IN  /\ c \in ToSet(s)
             /\ \/ c = QuotaAware(s, row) /\ \A a \in ToSet(s) : ~Eligible(q(a))
                \/ /\ Eligible(q(c))
                   /\ \A a \in ToSet(s) : Eligible(q(a)) => q(c).reset <= q(a).reset
<1> DEFINE q(a) == WindowQuota(row[a])
           S == {a \in Seats : Eligible(WindowQuota(row[a]))}
           some == Only(s, S)
           better == {p \in Seats \X Seats :
                        WindowQuota(row[p[1]]).reset < WindowQuota(row[p[2]]).reset}
<1>1. some \in Seq(Seats) /\ ToSet(some) = ToSet(s) \cap S
  BY OnlyIs
<1>2. ResetSoon(s, row) = IF some = <<>> THEN QuotaAware(s, row) ELSE BestOf(some, better)
  BY DEF ResetSoon
<1>3. \A a \in Seats : a \in S <=> Eligible(q(a))
  OBVIOUS
<1>4. \A a, b \in Seats : <<a, b>> \in better <=> q(a).reset < q(b).reset
  OBVIOUS
<1>5. \A a \in Seats : q(a).reset \in Int
  BY WindowIs
<1>9. ASSUME NEW a \in Seats PROVE <<a, a>> \notin better
  <2>1. ~(q(a).reset < q(a).reset)
    BY <1>5
  <2> QED BY <2>1
<1> HIDE DEF S, some, better, q
<1>6. ToSet(s) \subseteq Seats /\ ToSet(some) \subseteq Seats /\ (some = <<>> <=> ToSet(some) = {})
  BY <1>1, Members
<1>7. CASE some = <<>>
  <2>1. \A a \in ToSet(s) : ~Eligible(q(a))
    BY <1>1, <1>3, <1>6, <1>7
  <2>2. ResetSoon(s, row) = QuotaAware(s, row) /\ QuotaAware(s, row) \in ToSet(s)
    BY <1>2, <1>7, QuotaAwareIs
  <2> QED BY <2>1, <2>2 DEF q
<1>8. CASE some # <<>>
  <2> DEFINE c == ResetSoon(s, row)
  <2>2. \A a, b, e \in Seats : <<a, b>> \in better /\ <<b, e>> \in better => <<a, e>> \in better
    BY <1>4, <1>5
  <2>3. c \in ToSet(some) /\ \A a \in ToSet(some) : <<a, c>> \notin better
    BY <1>1, <1>2, <1>8, <1>9, <2>2, BestIs
  <2> HIDE DEF c
  <2>4. c \in ToSet(s) /\ c \in Seats /\ Eligible(q(c))
    BY <1>1, <1>3, <1>6, <2>3
  <2>5. ASSUME NEW a \in ToSet(s), Eligible(q(a)) PROVE q(c).reset <= q(a).reset
    <3>1. a \in Seats /\ a \in ToSet(some)
      BY <1>1, <1>3, <1>6, <2>5
    <3>2. <<a, c>> \notin better
      BY <2>3, <3>1
    <3>3. ~(q(a).reset < q(c).reset)
      BY <1>4, <2>4, <3>1, <3>2
    <3> QED BY <1>5, <2>4, <3>1, <3>3
  <2> QED BY <2>4, <2>5 DEF q, c
<1> QED BY <1>7, <1>8

LEMMA ScoreIs ==
  ASSUME NEW row \in [Seats -> Rows], NEW a \in Seats
  PROVE  /\ Score(WindowQuota(row[a]), a) \in Int
         /\ Remaining(WindowQuota(row[a])) \in Int /\ Urgency(WindowQuota(row[a])) \in Int
<1> DEFINE q == WindowQuota(row[a])
<1>1. q.pct \in -1..MaxPct /\ q.reset \in 0..Never /\ MaxPct \in Nat \ {0} /\ Never \in Nat
  BY WindowIs
<1> HIDE DEF q
<1>2. Remaining(q) \in Int
  <2>1. q.pct # Unknown => q.pct \in Nat /\ 300 * q.pct \in Nat
    BY <1>1 DEF Unknown
  <2>2. q.pct # Unknown => (300 * q.pct) \div MaxPct \in Nat
    BY <1>1, <2>1, Quotient
  <2> QED BY <2>2 DEF Remaining
<1>3. Urgency(q) \in Int
  <2> DEFINE d == 4 * q.reset + 1
  <2>1. d \in Nat \ {0} /\ 2400 \in Nat
    BY <1>1
  <2>2. Urgency(q) = CASE q.reset = Never -> 0
                       [] q.reset = 0     -> 600
                       [] OTHER           -> 2400 \div d
    BY DEF Urgency
  <2> HIDE DEF d
  <2>3. 2400 \div d \in Nat
    BY <2>1, Quotient
  <2> QED BY <2>2, <2>3
<1> QED BY <1>2, <1>3 DEF q, Score

\* The earlier a reset, the more urgent.
LEMMA UrgencyFalls ==
  ASSUME NEW q \in Quotas, NEW p \in Quotas, q.reset <= p.reset
  PROVE  Urgency(q) >= Urgency(p)
<1>1. /\ q.reset \in 0..Never /\ p.reset \in 0..Never /\ Never \in Nat /\ Never > 0
  BY SeatsAssumption DEF SeatsAssumption, Quotas, Never
<1> DEFINE u(k) == 2400 \div (4 * k + 1)
<1>2. ASSUME NEW k \in Nat PROVE u(k) \in Nat
  <2>1. 4 * k + 1 \in Nat \ {0} /\ 2400 \in Nat
    OBVIOUS
  <2> QED BY <2>1, Quotient
<1>3. ASSUME NEW k \in Nat, NEW m \in Nat, k <= m PROVE u(m) <= u(k)
  <2> DEFINE b == 4 * k + 1
             c == 4 * m + 1
  <2>1. b \in Nat \ {0} /\ c \in Nat /\ b <= c /\ 2400 \in Nat
    BY <1>3
  <2>2. u(k) = 2400 \div b /\ u(m) = 2400 \div c
    OBVIOUS
  <2> HIDE DEF b, c, u
  <2>3. 2400 \div c <= 2400 \div b
    BY <2>1
  <2> QED BY <2>2, <2>3
<1>4. u(1) = 480
  OBVIOUS
<1>5. /\ Urgency(q) = IF q.reset = Never THEN 0 ELSE IF q.reset = 0 THEN 600 ELSE u(q.reset)
      /\ Urgency(p) = IF p.reset = Never THEN 0 ELSE IF p.reset = 0 THEN 600 ELSE u(p.reset)
  BY <1>1 DEF Urgency
<1>6. u(q.reset) \in Nat /\ u(p.reset) \in Nat
  BY <1>1, <1>2
<1>7. p.reset # 0 => u(p.reset) <= 480
  <2>1. p.reset # 0 => p.reset \in Nat /\ 1 <= p.reset /\ 1 \in Nat
    BY <1>1
  <2>2. p.reset # 0 => u(p.reset) <= u(1)
    BY <1>3, <2>1
  <2> QED BY <1>4, <2>2
<1>8. u(p.reset) <= u(q.reset)
  BY <1>1, <1>3
<1> HIDE DEF u
<1> QED BY <1>1, <1>5, <1>6, <1>7, <1>8

\* The highest score.
LEMMA StewardIs ==
  ASSUME NEW s \in Seq(Seats), s # <<>>, NEW row \in [Seats -> Rows]
  PROVE  LET c == Steward(s, row)
             score(a) == Score(WindowQuota(row[a]), a)
         IN  /\ c \in ToSet(s)
             /\ \A a \in ToSet(s) : score(a) <= score(c)
<1> DEFINE score(a) == Score(WindowQuota(row[a]), a)
           better == {p \in Seats \X Seats : score(p[1]) > score(p[2])}
<1>1. Steward(s, row) = BestOf(s, better)
  BY DEF Steward
<1>2. \A a, b \in Seats : <<a, b>> \in better <=> score(a) > score(b)
  OBVIOUS
<1>3. \A a \in Seats : score(a) \in Int
  BY ScoreIs
<1>4. ASSUME NEW a \in Seats PROVE <<a, a>> \notin better
  <2>1. ~(score(a) > score(a))
    BY <1>3
  <2> QED BY <2>1
<1> HIDE DEF better, score
<1>5. \A a, b, c \in Seats : <<a, b>> \in better /\ <<b, c>> \in better => <<a, c>> \in better
  BY <1>2, <1>3
<1>6. /\ BestOf(s, better) \in ToSet(s)
      /\ \A a \in ToSet(s) : <<a, BestOf(s, better)>> \notin better
  BY <1>4, <1>5, BestIs
<1>7. ToSet(s) \subseteq Seats
  BY Members
<1> DEFINE c == Steward(s, row)
<1>8. c \in ToSet(s) /\ c \in Seats
  BY <1>1, <1>6, <1>7
<1>9. ASSUME NEW a \in ToSet(s) PROVE score(a) <= score(c)
  <2>1. a \in Seats /\ <<a, c>> \notin better
    BY <1>1, <1>6, <1>7
  <2>2. ~(score(a) > score(c))
    BY <1>2, <1>8, <2>1
  <2> QED BY <1>3, <1>8, <2>1, <2>2
<1> QED BY <1>8, <1>9 DEF score

\* Whatever the strategy, a request is given one of the seats it listed.
LEMMA ChosenIs ==
  ASSUME TypedSeats, NEW r \in Requests, list[r] # <<>>, NEW c \in Chosen(r)
  PROVE  c \in ToSet(list[r]) /\ c \in Seats
<1> DEFINE s == Choice(r)
<1>1. /\ s \in Seq(Seats) /\ ToSet(s) = ToSet(list[r]) /\ s # <<>>
      /\ list[r] \in Seq(Seats) /\ seen[r] \in [Seats -> Rows] /\ turn \in Nat
  BY ChoiceIs, CastIs DEF TypedSeats, TypeOKSeats
<1>2. Chosen(r) = CASE strategy = "round_robin" -> {RoundRobin(s, turn)}
                    [] strategy = "quota_aware" -> {QuotaAware(s, seen[r])}
                    [] strategy = "reset_soon"  -> {ResetSoon(s, seen[r])}
                    [] strategy = "steward"     -> {Steward(s, seen[r])}
                    [] OTHER                    -> ToSet(list[r])
  BY DEF Chosen
<1> HIDE DEF s
<1>3. RoundRobin(s, turn) \in ToSet(s)
  <2>1. Len(s) \in Nat \ {0}
    BY <1>1
  <2>2. turn % Len(s) \in 0..(Len(s) - 1)
    BY <1>1, <2>1, Quotient
  <2>3. 1 + (turn % Len(s)) \in 1..Len(s)
    BY <2>1, <2>2
  <2> QED BY <1>1, <2>3, Members DEF RoundRobin
<1>4. QuotaAware(s, seen[r]) \in ToSet(s)
  BY <1>1, QuotaAwareIs
<1>5. ResetSoon(s, seen[r]) \in ToSet(s)
  BY <1>1, ResetSoonIs
<1>6. Steward(s, seen[r]) \in ToSet(s)
  BY <1>1, StewardIs
<1>7. c \in ToSet(list[r])
  BY <1>1, <1>2, <1>3, <1>4, <1>5, <1>6
<1> QED BY <1>1, <1>7, Members

-----------------------------------------------------------------------------
(***************************************************************************)
(* The steps of a request, and its types.                                  *)
(***************************************************************************)

LEMMA TypedSeatsInit == InitSeats => TypedSeats
<1> SUFFICES ASSUME InitSeats PROVE TypedSeats
  OBVIOUS
<1> USE DEF InitSeats
<1>1. cast.writes \in Nat /\ cast.picks \in Nat
  BY CastIs
<1>2. Unlisted \in [Seats -> Rows]
  BY SeatsAssumption DEF SeatsAssumption, Unlisted, Blank, Rows, Quotas, Unknown, Never
<1>3. \A r \in Requests : list[r] \in Seq(Seats) /\ list[r] = <<>> /\ seat[r] = Nobody
  OBVIOUS
<1>4. TypeOKSeats
  BY <1>1, <1>2, <1>3 DEF TypeOKSeats
<1> QED BY <1>1, <1>4 DEF TypedSeats

\* A step that leaves the lists, the calls and the turns alone.
LEMMA TypedAround ==
  ASSUME TypedSeats, quota' \in [Seats -> Rows], writes' \in 0..cast.writes,
         failing' \subseteq Seats, UNCHANGED <<cast, turn, picks, request, history>>
  PROVE  TypedSeats'
  BY DEF TypedSeats, TypeOKSeats, request, history

LEMMA TypedWrite ==
  ASSUME TypedSeats, NEW a \in Seats, NEW row \in Rows, Write(a, row)
  PROVE  TypedSeats'
<1>1. quota' \in [Seats -> Rows]
  BY DEF Write, TypedSeats, TypeOKSeats
<1>2. writes' \in 0..cast.writes
  BY CastIs DEF Write, TypedSeats, TypeOKSeats
<1>3. failing' \subseteq Seats
  BY DEF Write, TypedSeats, TypeOKSeats
<1> QED BY <1>1, <1>2, <1>3, TypedAround DEF Write

LEMMA WrittenRows ==
  ASSUME TypedSeats, NEW a \in Seats
  PROVE  /\ RefreshOne(a) => TypedSeats'
         /\ RefreshFromUsage(a) => TypedSeats'
         /\ SetAccountQuota(a) => TypedSeats'
<1>1. Blank \in Quotas /\ Reports \subseteq Quotas /\ quota[a] \in Rows /\ MaxPct \in Nat
  <2>1. Blank \in Quotas /\ MaxPct \in Nat
    BY SeatsAssumption DEF SeatsAssumption, Blank, Quotas, Unknown, Never
  <2>2. [pct : 0..MaxPct, reset : 0..Never] \subseteq Quotas
    BY <2>1 DEF Quotas, Unknown
  <2> QED BY <2>1, <2>2, SeatsAssumption DEF SeatsAssumption, TypedSeats, TypeOKSeats
<1>2. ASSUME RefreshOne(a) PROVE TypedSeats'
  <2>1. PICK w5 \in Reports \cup {Blank}, w7 \in Reports \cup {Blank} :
          Write(a, [mirror |-> Tightest(w5, w7), w5 |-> w5, w7 |-> w7])
    BY <1>2 DEF RefreshOne
  <2>2. [mirror |-> Tightest(w5, w7), w5 |-> w5, w7 |-> w7] \in Rows
    BY <1>1 DEF Tightest, Rows
  <2> QED BY <2>1, <2>2, TypedWrite
<1>3. ASSUME RefreshFromUsage(a) PROVE TypedSeats'
  <2>1. PICK pct \in 0..MaxPct : Write(a, [quota[a] EXCEPT !.mirror.pct = pct])
    BY <1>3 DEF RefreshFromUsage
  <2>2. [quota[a] EXCEPT !.mirror.pct = pct] \in Rows
    BY <1>1 DEF Rows, Quotas, Unknown
  <2> QED BY <2>1, <2>2, TypedWrite
<1>4. ASSUME SetAccountQuota(a) PROVE TypedSeats'
  <2>1. PICK q \in Reports \cup {Blank} : Write(a, [quota[a] EXCEPT !.mirror = q])
    BY <1>4 DEF SetAccountQuota
  <2>2. [quota[a] EXCEPT !.mirror = q] \in Rows
    BY <1>1 DEF Rows
  <2> QED BY <2>1, <2>2, TypedWrite
<1> QED BY <1>2, <1>3, <1>4

\* A list in the order of the route holds each of its seats once.
LEMMA ByPositionIs ==
  ASSUME NEW S \in SUBSET Seats, NEW s \in ByPosition(S)
  PROVE  s \in Seq(Seats) /\ Distinct(s)
<1>1. IsFiniteSet(S)
  BY SeatsAssumption, FS_Subset DEF SeatsAssumption
<1>2. Cardinality(S) \in Nat
  BY <1>1, FS_CardinalityType
<1>3. s \in SetToSeqs(S) /\ \A i, j \in DOMAIN s : i < j => s[i] < s[j]
  BY DEF ByPosition
<1>4. s \in [1..Cardinality(S) -> S]
  BY <1>3 DEF SetToSeqs
<1>5. s \in Seq(Seats) /\ DOMAIN s = 1..Cardinality(S)
  BY <1>2, <1>4
<1>6. \A i \in DOMAIN s : s[i] \in Nat
  BY <1>4, SeatsAssumption DEF SeatsAssumption
<1>7. ASSUME NEW i \in DOMAIN s, NEW j \in DOMAIN s, s[i] = s[j] PROVE i = j
  <2>1. i \in Int /\ j \in Int /\ s[i] \in Int
    BY <1>2, <1>5, <1>6
  <2>2. ~(i < j) /\ ~(j < i)
    BY <1>3, <1>6, <1>7, <2>1
  <2> QED BY <2>1, <2>2
<1> QED BY <1>5, <1>7 DEF Distinct

\* A step of one request: its list, its seat and what it has seen.
LEMMA TypedRequest ==
  ASSUME TypedSeats, NEW r \in Requests,
         NEW s \in Seq(Seats), Distinct(s), NEW c \in ToSet(s) \cup {Nobody},
         list' = [list EXCEPT ![r] = s], seat' = [seat EXCEPT ![r] = c],
         seen' \in [Requests -> [Seats -> Rows]],
         stuck' \in [Requests -> Seats \cup {Nobody}], failing' \subseteq Seats,
         UNCHANGED <<cast, quota, writes, turn, picks, history>>
  PROVE  TypedSeats'
<1>1. ToSet(s) \subseteq Seats
  BY Members
<1>2. list' \in [Requests -> Seq(Seats)] /\ seat' \in [Requests -> Seats \cup {Nobody}]
  BY <1>1 DEF TypedSeats
<1>3. \A p \in Requests :
        IF p = r THEN list'[p] = s /\ seat'[p] = c
        ELSE list'[p] = list[p] /\ seat'[p] = seat[p]
  BY DEF TypedSeats
<1>4. \A p \in Requests :
        /\ list'[p] \in Seq(Seats)
        /\ \A i, j \in DOMAIN list'[p] : list'[p][i] = list'[p][j] => i = j
        /\ seat'[p] \in ToSet(list'[p]) \cup {Nobody}
  BY <1>3 DEF TypedSeats, TypeOKSeats, Distinct
<1>5. TypeOKSeats'
  BY <1>4 DEF TypedSeats, TypeOKSeats, history
<1> QED BY <1>2, <1>5 DEF TypedSeats, history

LEMMA TypedList ==
  ASSUME TypedSeats, NEW r \in Requests, List(r)
  PROVE  TypedSeats'
<1>0. PICK S \in SUBSET Seats : \E s \in ByPosition(S) : list' = [list EXCEPT ![r] = s]
  BY DEF List
<1>1. PICK s \in ByPosition(S) : list' = [list EXCEPT ![r] = s]
  BY <1>0
<1>2. s \in Seq(Seats) /\ Distinct(s)
  BY ByPositionIs
<1>3. seat[r] = Nobody
  BY Members DEF List, TypedSeats, TypeOKSeats
<1>4. seat' = [seat EXCEPT ![r] = Nobody]
  BY <1>3 DEF List, TypedSeats
<1>5. seen' \in [Requests -> [Seats -> Rows]]
  BY DEF List, TypedSeats, TypeOKSeats
<1>6. stuck' \in [Requests -> Seats \cup {Nobody}] /\ failing' \subseteq Seats
  BY DEF List, TypedSeats, TypeOKSeats
<1> QED BY <1>1, <1>2, <1>4, <1>5, <1>6, TypedRequest DEF List

LEMMA TypedFails ==
  ASSUME TypedSeats, NEW r \in Requests, Fails(r)
  PROVE  TypedSeats'
<1> DEFINE s == Only(list[r], Seats \ {seat[r]})
<1>1. list[r] \in Seq(Seats) /\ Distinct(list[r]) /\ seat[r] \in Seats
  BY DEF Fails, TypedSeats, TypeOKSeats, Distinct
<1>2. s \in Seq(Seats) /\ Distinct(s)
  BY <1>1, OnlyIs
<1>3. list' = [list EXCEPT ![r] = s]
  BY DEF Fails
<1> HIDE DEF s
<1>4. failing' \subseteq Seats /\ stuck' \in [Requests -> Seats \cup {Nobody}]
  BY <1>1 DEF Fails, TypedSeats, TypeOKSeats
<1>5. Unlisted \in [Seats -> Rows]
  BY SeatsAssumption DEF SeatsAssumption, Unlisted, Blank, Rows, Quotas, Unknown, Never
<1>6. seen' \in [Requests -> [Seats -> Rows]]
  BY <1>5 DEF Fails, TypedSeats, TypeOKSeats
<1> QED BY <1>2, <1>3, <1>4, <1>6, TypedRequest DEF Fails

LEMMA TypedAnswers ==
  ASSUME TypedSeats, NEW r \in Requests, Answers(r)
  PROVE  TypedSeats'
<1>1. seat[r] \in Seats
  BY DEF Answers, TypedSeats
<1>2. <<>> \in Seq(Seats) /\ Distinct(<<>>)
  BY DEF Distinct
<1>3. failing' \subseteq Seats /\ stuck' \in [Requests -> Seats \cup {Nobody}]
  BY <1>1 DEF Answers, TypedSeats, TypeOKSeats
<1>4. Unlisted \in [Seats -> Rows]
  BY SeatsAssumption DEF SeatsAssumption, Unlisted, Blank, Rows, Quotas, Unknown, Never
<1>5. seen' \in [Requests -> [Seats -> Rows]]
  BY <1>4 DEF Answers, TypedSeats, TypeOKSeats
<1> QED BY <1>2, <1>3, <1>5, TypedRequest DEF Answers

\* What a pick leaves: a seat of the list, and one turn more at most.
LEMMA Picked ==
  ASSUME TypedSeats, NEW r \in Requests, Pick(r)
  PROVE  /\ list[r] # <<>> /\ picks' = picks + 1 /\ picks' <= cast.picks
         /\ seat'[r] \in Chosen(r) /\ seat'[r] \in ToSet(list[r]) /\ seat'[r] \in Seats
         /\ seat' = [seat EXCEPT ![r] = seat'[r]]
         /\ UNCHANGED <<cast, quota, writes, failing, stuck, list, seen>>
<1>1. PICK c \in Chosen(r) : seat' = [seat EXCEPT ![r] = c]
  BY DEF Pick
<1>2. list[r] # <<>>
  BY DEF Pick
<1>3. c \in ToSet(list[r]) /\ c \in Seats
  BY <1>2, ChosenIs
<1>4. seat'[r] = c
  BY <1>1 DEF TypedSeats
<1>5. picks \in Nat /\ cast.picks \in Nat
  BY CastIs DEF TypedSeats, TypeOKSeats
<1>6. picks < cast.picks /\ picks' = picks + 1
  BY DEF Pick
<1>7. UNCHANGED <<cast, quota, writes, failing, stuck, list, seen>>
  BY DEF Pick
<1>8. picks' <= cast.picks
  BY <1>5, <1>6
<1> QED BY <1>1, <1>2, <1>3, <1>4, <1>6, <1>7, <1>8

LEMMA TypedPick ==
  ASSUME TypedSeats, NEW r \in Requests, Pick(r)
  PROVE  TypedSeats'
<1> DEFINE c == seat'[r]
<1>1. /\ picks' = picks + 1 /\ picks' <= cast.picks /\ cast.picks \in Nat
      /\ c \in ToSet(list[r]) /\ c \in Seats /\ seat' = [seat EXCEPT ![r] = c]
      /\ UNCHANGED <<cast, quota, writes, failing, stuck, list, seen>>
  BY Picked, CastIs DEF TypedSeats, TypeOKSeats
<1> HIDE DEF c
<1>2. picks \in Nat /\ turn \in Nat /\ turns \in [Seats -> Nat] /\ order \in Seq(Seats)
  BY <1>1 DEF TypedSeats, TypeOKSeats
<1>3. /\ turn' \in Nat /\ turn' <= picks' /\ order' \in Seq(Seats)
      /\ turns' \in [Seats -> Nat] /\ \A a \in Seats : turns'[a] <= picks'
  <2>1. CASE strategy = "round_robin"
    <3>1. Choice(r) \in Seq(Seats)
      BY ChoiceIs
    <3>2. turn' = turn + 1 /\ order' = Choice(r)
      BY <2>1 DEF Pick
    <3>3. turns' = [a \in Seats |-> (IF order' = order THEN turns[a] ELSE 0)
                                       + (IF a = seat'[r] THEN 1 ELSE 0)]
      BY <2>1 DEF Pick
    <3>4. \A a \in Seats : turns'[a] \in Nat /\ turns'[a] <= picks'
      BY <1>1, <1>2, <3>3 DEF TypedSeats
    <3>5. turns' \in [Seats -> Nat]
      BY <3>3, <3>4
    <3> QED BY <1>1, <1>2, <3>1, <3>2, <3>4, <3>5 DEF TypedSeats
  <2>2. CASE strategy # "round_robin"
    <3>1. UNCHANGED <<turn, order, turns>>
      BY <2>2 DEF Pick, history
    <3> QED BY <1>1, <1>2, <3>1 DEF TypedSeats
  <2> QED BY <2>1, <2>2
<1>4. turns' \in [Seats -> 0..cast'.picks] /\ {turn', picks'} \subseteq 0..cast'.picks
  BY <1>1, <1>2, <1>3
<1>5. \A p \in Requests : seat'[p] = (IF p = r THEN c ELSE seat[p])
  BY <1>1 DEF TypedSeats
<1>6. \A p \in Requests :
        /\ list'[p] \in Seq(Seats)
        /\ \A i, j \in DOMAIN list'[p] : list'[p][i] = list'[p][j] => i = j
        /\ seat'[p] \in ToSet(list'[p]) \cup {Nobody}
  BY <1>1, <1>5 DEF TypedSeats, TypeOKSeats
<1>7. TypeOKSeats'
  BY <1>1, <1>3, <1>4, <1>6 DEF TypedSeats, TypeOKSeats
<1>8. seat' \in [Requests -> Seats \cup {Nobody}]
  BY <1>1 DEF TypedSeats
<1> QED BY <1>1, <1>3, <1>7, <1>8 DEF TypedSeats

LEMMA TypedSeatsNext == TypedSeats /\ [NextSeats]_seatVars => TypedSeats'
<1> SUFFICES ASSUME TypedSeats, [NextSeats]_seatVars PROVE TypedSeats'
  OBVIOUS
<1>1. cast.requests \subseteq Requests /\ OAuth \subseteq Seats
  BY CastIs, SeatsAssumption DEF SeatsAssumption, TypedSeats, TypeOKSeats
<1>2. ASSUME NEW a \in Seats, RefreshOne(a) \/ RefreshFromUsage(a) \/ SetAccountQuota(a)
      PROVE  TypedSeats'
  BY <1>2, WrittenRows
<1>3. ASSUME NEW a \in Seats, Recover(a) PROVE TypedSeats'
  BY <1>3, TypedAround DEF Recover, TypedSeats, TypeOKSeats
<1>4. ASSUME NEW r \in cast.requests, List(r) \/ Pick(r) \/ Fails(r) \/ Answers(r)
      PROVE  TypedSeats'
  BY <1>1, <1>4, TypedList, TypedPick, TypedFails, TypedAnswers
<1>5. CASE UNCHANGED seatVars
  BY <1>5 DEF seatVars, TypedSeats, TypeOKSeats
<1> QED BY <1>1, <1>2, <1>3, <1>4, <1>5 DEF NextSeats

LEMMA TypedSeatsAlways == SpecSeats => []TypedSeats
  BY TypedSeatsInit, TypedSeatsNext, PTL DEF SpecSeats

\* Every variable of the strategies always holds a value of its type; a request
\* calls one of the seats it has listed and not yet been refused by.
THEOREM SeatsTypeCorrect == SpecSeats => []TypeOKSeats
<1>1. TypedSeats => TypeOKSeats
  BY DEF TypedSeats
<1> QED BY <1>1, TypedSeatsAlways, PTL

-----------------------------------------------------------------------------
\* A request is given a seat by its own pick only.
LEMMA PicksStep ==
  ASSUME TypedSeats, [NextSeats]_seatVars, NEW r \in Requests, Picks(r)
  PROVE  Pick(r)
<1>1. seat[r] = Nobody /\ seat'[r] # Nobody
  BY DEF Picks
<1>2. ASSUME NEW a \in Seats,
             RefreshOne(a) \/ RefreshFromUsage(a) \/ SetAccountQuota(a) \/ Recover(a)
      PROVE  FALSE
  BY <1>1, <1>2 DEF RefreshOne, RefreshFromUsage, SetAccountQuota, Recover, Write, request
<1>3. ASSUME NEW p \in cast.requests, List(p) \/ Fails(p) \/ Answers(p)
      PROVE  FALSE
  BY <1>1, <1>3 DEF List, Fails, Answers, TypedSeats
<1>4. ASSUME NEW p \in cast.requests, Pick(p), p # r PROVE FALSE
  BY <1>1, <1>4 DEF Pick, TypedSeats
<1>5. OAuth \subseteq Seats
  BY SeatsAssumption DEF SeatsAssumption
<1>6. seat' # seat
  BY <1>1
<1> QED BY <1>2, <1>3, <1>4, <1>5, <1>6 DEF NextSeats, seatVars

\* What a request listed, and which seat of that list it is given.
LEMMA PickedFrom ==
  ASSUME TypedSeats, [NextSeats]_seatVars, NEW r \in Requests, Picks(r)
  PROVE  /\ Choice(r) \in Seq(Seats) /\ Choice(r) # <<>>
         /\ ToSet(Choice(r)) = ToSet(list[r]) /\ ToSet(list[r]) \subseteq Seats
         /\ seat'[r] \in Chosen(r) /\ seat'[r] \in Seats
         /\ seen[r] \in [Seats -> Rows]
  BY PicksStep, Picked, ChoiceIs, Members DEF TypedSeats, TypeOKSeats

\* Among the seats a quota-aware pick chooses from, a spent one is taken only
\* when all are: what a row says of the windows, its mirror follows.
LEMMA SparedByMirror ==
  ASSUME NEW row \in Rows, NEW other \in Rows, ~Overruled(row),
         0 \in {row.mirror.pct, row.w5.pct, row.w7.pct}, ~Fuller(other.mirror, row.mirror)
  PROVE  ~HasLeft(other)
<1>1. \A q \in {row.mirror, row.w5, row.w7, other.mirror} :
        q \in Quotas /\ q.pct \in Int /\ q.reset \in Int
  BY SeatsAssumption DEF SeatsAssumption, Rows, Quotas, Unknown, Never
<1>2. Blank.pct = -1
  BY DEF Blank, Unknown
<1>3. row.mirror.pct <= 0
  BY <1>1, <1>2 DEF Overruled, Tightest
<1> QED BY <1>1, <1>3 DEF Fuller, HasLeft

LEMMA WindowSpent ==
  ASSUME NEW row \in Rows, WindowQuota(row).pct = 0
  PROVE  0 \in {row.mirror.pct, row.w5.pct, row.w7.pct}
  BY SeatsAssumption DEF SeatsAssumption, WindowQuota

LEMMA SparesSpentStep ==
  ASSUME TypedSeats, [NextSeats]_seatVars, NEW r \in Requests
  PROVE  SparesSpentBy(r)
<1> SUFFICES ASSUME Picks(r), strategy \in {"quota_aware", "reset_soon"},
                    Spent(seen[r][seat'[r]]), ~Overruled(seen[r][seat'[r]]),
                    NEW a \in ToSet(list[r])
             PROVE  ~HasLeft(seen[r][a])
  BY DEF SparesSpentBy
<1> DEFINE s == Choice(r)
           c == seat'[r]
           row == seen[r]
<1>1. /\ s \in Seq(Seats) /\ s # <<>> /\ a \in ToSet(s) /\ a \in Seats
      /\ c \in Chosen(r) /\ c \in Seats /\ row \in [Seats -> Rows]
  BY PickedFrom
<1>2. /\ strategy = "quota_aware" => c = QuotaAware(s, row)
      /\ strategy = "reset_soon" => c = ResetSoon(s, row)
  BY <1>1 DEF Chosen
<1>3. Spent(row[c]) /\ ~Overruled(row[c])
  OBVIOUS
<1> HIDE DEF s, c, row
<1>4. 0 \in {row[c].mirror.pct, row[c].w5.pct, row[c].w7.pct}
  BY <1>1, <1>3, WindowSpent DEF Spent
<1>5. c = QuotaAware(s, row)
  <2>1. CASE strategy = "reset_soon"
    <3>1. WindowQuota(row[c]).pct = 0
      BY <1>3, <2>1 DEF Spent
    <3>2. ~Eligible(WindowQuota(row[c]))
      BY <3>1 DEF Eligible
    <3> QED BY <1>1, <1>2, <2>1, <3>2, ResetSoonIs
  <2> QED BY <1>2, <2>1
<1>6. ~Fuller(row[a].mirror, row[c].mirror)
  BY <1>1, <1>5, QuotaAwareIs
<1>7. ~HasLeft(row[a])
  BY <1>1, <1>3, <1>4, <1>6, SparedByMirror
<1> QED BY <1>7 DEF row

\* A request under a quota strategy is given a spent seat only when no seat it
\* listed has anything left, however the quotas change while it runs.
THEOREM SpentAlwaysSpared == SpecSeats => SparesSpent
<1>1. TypedSeats /\ [NextSeats]_seatVars => [\A r \in Requests : SparesSpentBy(r)]_seatVars
  BY SparesSpentStep
<1> QED BY <1>1, TypedSeatsAlways, PTL DEF SpecSeats, SparesSpent

LEMMA ResetsSoonestStep ==
  ASSUME TypedSeats, [NextSeats]_seatVars, NEW r \in Requests
  PROVE  ResetsSoonestBy(r)
<1> SUFFICES ASSUME Picks(r), strategy = "reset_soon", NEW a \in ToSet(list[r]),
                    Eligible(WindowQuota(seen[r][a]))
             PROVE  /\ Eligible(WindowQuota(seen[r][seat'[r]]))
                    /\ WindowQuota(seen[r][seat'[r]]).reset <= WindowQuota(seen[r][a]).reset
  BY DEF ResetsSoonestBy
<1>1. /\ Choice(r) \in Seq(Seats) /\ Choice(r) # <<>> /\ a \in ToSet(Choice(r))
      /\ seen[r] \in [Seats -> Rows] /\ seat'[r] = ResetSoon(Choice(r), seen[r])
  BY PickedFrom DEF Chosen
<1> QED BY <1>1, ResetSoonIs

\* A reset-soon pick takes the seat whose window resets first, of those with
\* something left.
THEOREM SoonestAlwaysTaken == SpecSeats => ResetsSoonest
<1>1. TypedSeats /\ [NextSeats]_seatVars => [\A r \in Requests : ResetsSoonestBy(r)]_seatVars
  BY ResetsSoonestStep
<1> QED BY <1>1, TypedSeatsAlways, PTL DEF SpecSeats, ResetsSoonest

LEMMA NotDominatedStep ==
  ASSUME TypedSeats, [NextSeats]_seatVars, NEW r \in Requests
  PROVE  NotDominatedBy(r)
<1> SUFFICES ASSUME Picks(r), strategy = "steward", NEW a \in ToSet(list[r]),
                    Dominates(a, seat'[r], seen[r])
             PROVE  FALSE
  BY DEF NotDominatedBy
<1> DEFINE c == seat'[r]
           row == seen[r]
           q == WindowQuota(row[a])
           p == WindowQuota(row[c])
<1>1. /\ Choice(r) \in Seq(Seats) /\ Choice(r) # <<>> /\ a \in ToSet(Choice(r)) /\ a \in Seats
      /\ row \in [Seats -> Rows] /\ c \in Seats /\ c = Steward(Choice(r), row)
  BY PickedFrom DEF Chosen
<1>2. Dominates(a, c, row)
  OBVIOUS
<1> HIDE DEF c, row
<1>3. Score(q, a) <= Score(p, c)
  BY <1>1, StewardIs
<1>4. q \in Quotas /\ p \in Quotas
  BY <1>1, WindowIs
<1>5. /\ Remaining(q) \in Int /\ Urgency(q) \in Int /\ Remaining(p) \in Int /\ Urgency(p) \in Int
  BY <1>1, ScoreIs
<1>6. /\ Remaining(q) >= Remaining(p) /\ q.reset <= p.reset
      /\ a \in failing => c \in failing
      /\ c \in OAuth => a \in OAuth
      /\ Remaining(q) > Remaining(p) \/ (a \notin failing /\ c \in failing)
  BY <1>2 DEF Dominates
<1> HIDE DEF q, p
<1>7. Urgency(q) >= Urgency(p)
  BY <1>4, <1>6, UrgencyFalls
<1> QED BY <1>3, <1>5, <1>6, <1>7 DEF Score

\* A steward never takes a seat when another is at least as good in all it
\* weighs and better in one.
THEOREM NeverDominated == SpecSeats => NotDominated
<1>1. TypedSeats /\ [NextSeats]_seatVars => [\A r \in Requests : NotDominatedBy(r)]_seatVars
  BY NotDominatedStep
<1> QED BY <1>1, TypedSeatsAlways, PTL DEF SpecSeats, NotDominated

-----------------------------------------------------------------------------
(***************************************************************************)
(* Turns of round-robin.                                                   *)
(***************************************************************************)

\* Turns go round the positions 0..L-1: which ones had theirs, when the round
\* began at first and the next one is to.
Passed(first, to, k) ==
  IF first <= to THEN first <= k /\ k < to ELSE k >= first \/ k < to

Round(s, ts, n, low, first) ==
  \A i \in 1..Len(s) :
    ts[s[i]] = low + (IF Passed(first, n % Len(s), i - 1) THEN 1 ELSE 0)

\* Every seat of the list had low turns, those the round has passed one more.
Cycled(s, ts, n) ==
  s # <<>> => \E low \in Nat : \E first \in 0..(Len(s) - 1) : Round(s, ts, n, low, first)

TurnsCycle == TypedSeats /\ Distinct(order) /\ Cycled(order, turns, turn)

LEMMA RoundGoesOn ==
  ASSUME NEW s \in Seq(Seats), s # <<>>, Distinct(s), NEW n \in Nat,
         NEW ts \in [Seats -> Nat], NEW us, NEW low \in Nat, NEW first \in 0..(Len(s) - 1),
         Round(s, ts, n, low, first),
         \A a \in Seats : us[a] = ts[a] + (IF a = RoundRobin(s, n) THEN 1 ELSE 0)
  PROVE  Cycled(s, us, n + 1)
<1> DEFINE L == Len(s)
           c == n % L
           d == (n + 1) % L
<1>1. L \in Nat \ {0}
  OBVIOUS
<1>2. c \in 0..(L - 1) /\ d \in 0..(L - 1) /\ d = (IF c + 1 = L THEN 0 ELSE c + 1)
  <2>1. n + 1 \in Nat
    OBVIOUS
  <2> HIDE DEF L
  <2> QED BY <1>1, <2>1, Quotient, GoesRound
<1>3. RoundRobin(s, n) = s[1 + c] /\ 1 + c \in 1..L
  BY <1>1, <1>2 DEF RoundRobin
<1> HIDE DEF c, d
<1>4. \A i \in 1..L : /\ us[s[i]] = ts[s[i]] + (IF i - 1 = c THEN 1 ELSE 0)
                      /\ ts[s[i]] = low + (IF Passed(first, c, i - 1) THEN 1 ELSE 0)
                      /\ i - 1 \in 0..(L - 1) /\ i \in Int
  <2>1. \A i \in 1..L : s[i] \in Seats /\ (s[i] = s[1 + c] => i = 1 + c)
    BY <1>3 DEF Distinct
  <2>2. \A i \in 1..L : i \in Int /\ c \in Int /\ (i = 1 + c <=> i - 1 = c) /\ i - 1 \in 0..(L - 1)
    BY <1>1, <1>2
  <2>3. \A i \in 1..L : ts[s[i]] = low + (IF Passed(first, c, i - 1) THEN 1 ELSE 0)
    BY DEF Round, c
  <2> QED BY <1>3, <2>1, <2>2, <2>3
<1>5. CASE d # first
  <2>1. \A i \in 1..L : us[s[i]] = low + (IF Passed(first, d, i - 1) THEN 1 ELSE 0)
    <3> TAKE i \in 1..L
    <3>1. i - 1 \in 0..(L - 1)
      BY <1>4
    <3>2. /\ Passed(first, d, i - 1) <=> Passed(first, c, i - 1) \/ i - 1 = c
          /\ ~Passed(first, c, c)
      <4>1. first \in 0..(L - 1)
        OBVIOUS
      <4> HIDE DEF L
      <4> QED BY <1>1, <1>2, <1>5, <3>1, <4>1 DEF Passed
    <3> QED BY <1>4, <3>2
  <2>2. Round(s, us, n + 1, low, first)
    BY <2>1 DEF Round, d
  <2> QED BY <2>2 DEF Cycled
<1>6. CASE d = first
  <2>1. \A i \in 1..L : us[s[i]] = (low + 1) + (IF Passed(first, d, i - 1) THEN 1 ELSE 0)
    <3> TAKE i \in 1..L
    <3>1. i - 1 \in 0..(L - 1)
      BY <1>4
    <3>2. /\ Passed(first, c, i - 1) \/ i - 1 = c
          /\ ~Passed(first, c, c) /\ ~Passed(first, d, i - 1)
      <4>1. first \in 0..(L - 1)
        OBVIOUS
      <4> HIDE DEF L
      <4> QED BY <1>1, <1>2, <1>6, <3>1, <4>1 DEF Passed
    <3> QED BY <1>4, <3>2
  <2>2. Round(s, us, n + 1, low + 1, first) /\ low + 1 \in Nat
    BY <2>1 DEF Round, d
  <2> QED BY <2>2 DEF Cycled
<1> QED BY <1>5, <1>6

\* The first turn of a list, when nobody of it had one.
LEMMA RoundBegins ==
  ASSUME NEW s \in Seq(Seats), s # <<>>, Distinct(s), NEW n \in Nat, NEW us,
         \A a \in Seats : us[a] = 0 + (IF a = RoundRobin(s, n) THEN 1 ELSE 0)
  PROVE  Cycled(s, us, n + 1)
<1> DEFINE c == n % Len(s)
           ts == [a \in Seats |-> 0]
<1>1. Len(s) \in Nat \ {0} /\ \A i \in 1..Len(s) : s[i] \in Seats
  OBVIOUS
<1>2. c \in 0..(Len(s) - 1)
  BY <1>1, Quotient
<1>3. Round(s, ts, n, 0, c)
  <2> SUFFICES ASSUME NEW i \in 1..Len(s)
               PROVE  ts[s[i]] = 0 + (IF Passed(c, c, i - 1) THEN 1 ELSE 0)
    BY DEF Round
  <2>1. ts[s[i]] = 0
    BY <1>1
  <2> HIDE DEF c, ts
  <2>2. i - 1 \in 0..(Len(s) - 1)
    BY <1>1
  <2>3. ~Passed(c, c, i - 1)
    BY <1>2, <2>2 DEF Passed
  <2> QED BY <2>1, <2>3
<1>4. ts \in [Seats -> Nat] /\ \A a \in Seats : ts[a] = 0
  OBVIOUS
<1> HIDE DEF c, ts
<1>5. \A a \in Seats : us[a] = ts[a] + (IF a = RoundRobin(s, n) THEN 1 ELSE 0)
  BY <1>4
<1> QED BY <1>2, <1>3, <1>4, <1>5, RoundGoesOn

LEMMA PickCycles ==
  ASSUME TurnsCycle, NEW r \in Requests, Pick(r)
  PROVE  TurnsCycle'
<1> USE DEF TurnsCycle
<1>1. TypedSeats'
  BY TypedPick
<1>2. CASE strategy # "round_robin"
  BY <1>1, <1>2 DEF Pick, history
<1>3. CASE strategy = "round_robin"
  <2> DEFINE s == Choice(r)
  <2>1. s \in Seq(Seats) /\ Distinct(s) /\ s # <<>>
    BY ChoiceIs, Picked
  <2>2. turn' = turn + 1 /\ order' = s
    BY <1>3 DEF Pick
  <2>3. seat'[r] = RoundRobin(s, turn)
    BY <1>3, Picked DEF Chosen
  <2>4. turns' = [a \in Seats |-> (IF order' = order THEN turns[a] ELSE 0)
                                    + (IF a = seat'[r] THEN 1 ELSE 0)]
    BY <1>3 DEF Pick
  <2> HIDE DEF s
  <2>5. turn \in Nat /\ turns \in [Seats -> Nat]
    BY DEF TypedSeats, TypeOKSeats
  <2>6. Cycled(s, turns', turn + 1)
    <3>1. CASE s = order
      <4>1. \A a \in Seats : turns'[a] = turns[a] + (IF a = RoundRobin(s, turn) THEN 1 ELSE 0)
        BY <2>2, <2>3, <2>4, <3>1
      <4>2. PICK low \in Nat : \E first \in 0..(Len(s) - 1) : Round(s, turns, turn, low, first)
        BY <2>1, <3>1 DEF Cycled
      <4>3. PICK first \in 0..(Len(s) - 1) : Round(s, turns, turn, low, first)
        BY <4>2
      <4> QED BY <2>1, <2>5, <4>1, <4>3, RoundGoesOn
    <3>2. CASE s # order
      <4>1. \A a \in Seats : turns'[a] = 0 + (IF a = RoundRobin(s, turn) THEN 1 ELSE 0)
        BY <2>2, <2>3, <2>4, <3>2
      <4> QED BY <2>1, <2>5, <4>1, RoundBegins
    <3> QED BY <3>1, <3>2
  <2> QED BY <1>1, <2>1, <2>2, <2>6
<1> QED BY <1>2, <1>3

LEMMA TurnsCycleInit == InitSeats => TurnsCycle
<1> SUFFICES ASSUME InitSeats PROVE TurnsCycle
  OBVIOUS
<1>1. order = <<>>
  BY DEF InitSeats
<1>2. Distinct(order) /\ Cycled(order, turns, turn)
  BY <1>1 DEF Distinct, Cycled
<1> QED BY <1>2, TypedSeatsInit DEF TurnsCycle

LEMMA TurnsCycleNext == TurnsCycle /\ [NextSeats]_seatVars => TurnsCycle'
<1> SUFFICES ASSUME TurnsCycle, [NextSeats]_seatVars PROVE TurnsCycle'
  OBVIOUS
<1>1. TypedSeats'
  BY TypedSeatsNext DEF TurnsCycle
<1>2. ASSUME UNCHANGED <<turn, order, turns>> PROVE TurnsCycle'
  BY <1>1, <1>2 DEF TurnsCycle
<1>3. cast.requests \subseteq Requests
  BY CastIs DEF TurnsCycle, TypedSeats, TypeOKSeats
<1>4. ASSUME NEW a \in Seats \cup OAuth,
             RefreshOne(a) \/ RefreshFromUsage(a) \/ SetAccountQuota(a) \/ Recover(a)
      PROVE  TurnsCycle'
  BY <1>2, <1>4 DEF RefreshOne, RefreshFromUsage, SetAccountQuota, Recover, Write, history
<1>5. ASSUME NEW r \in cast.requests, List(r) \/ Fails(r) \/ Answers(r)
      PROVE  TurnsCycle'
  BY <1>2, <1>5 DEF List, Fails, Answers, history
<1>6. ASSUME NEW r \in cast.requests, Pick(r)
      PROVE  TurnsCycle'
  BY <1>3, <1>6, PickCycles
<1>7. CASE UNCHANGED seatVars
  BY <1>2, <1>7 DEF seatVars
<1> QED BY <1>4, <1>5, <1>6, <1>7 DEF NextSeats

LEMMA CycleIsEven == TurnsCycle => EvenTurns
<1> SUFFICES ASSUME TurnsCycle, NEW i \in DOMAIN order, NEW j \in DOMAIN order
             PROVE  turns[order[i]] <= turns[order[j]] + 1
  BY DEF EvenTurns
<1>1. order \in Seq(Seats) /\ DOMAIN order = 1..Len(order) /\ order # <<>>
  BY DEF TurnsCycle, TypedSeats, TypeOKSeats
<1>2. PICK low \in Nat : \E first \in 0..(Len(order) - 1) : Round(order, turns, turn, low, first)
  BY <1>1 DEF TurnsCycle, Cycled
<1>3. turns[order[i]] \in {low, low + 1} /\ turns[order[j]] \in {low, low + 1}
  BY <1>1, <1>2 DEF Round
<1> QED BY <1>3

\* "Round-robin among healthy seats": for any number of seats and requests, as
\* long as the requests choose from one list in one order, no seat is ever two
\* turns ahead of another.
THEOREM TurnsAlwaysEven == SpecSeats => []EvenTurns
<1>1. SpecSeats => []TurnsCycle
  BY TurnsCycleInit, TurnsCycleNext, PTL DEF SpecSeats
<1> QED BY <1>1, CycleIsEven, PTL

=============================================================================

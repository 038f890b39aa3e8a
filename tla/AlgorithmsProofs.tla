-------------------------- MODULE AlgorithmsProofs --------------------------
(***************************************************************************)
(* Machine-checked proofs about the index algorithms, for every rollout,   *)
(* step division and probe, and for every batch of lengths.                *)
(*                                                                         *)
(* AlgorithmsInv says what the turns of the loops have established: where  *)
(* the packed layout has put each branch and what the worker gathered for  *)
(* it, and what the packed batch of scores holds before each offset.       *)
(***************************************************************************)
EXTENDS Algorithms, SequenceTheorems, TLAPS

-----------------------------------------------------------------------------
(* The packed forward                                                      *)

Token == {"prompt", "response", "probe"} \X Nat
BranchRecord == [visible : Nat, start : Nat, end : Nat, answers : Seq(Nat)]
LayoutRecord ==
    [ids : Seq(Token), positions : Seq(Nat), original : Nat, branches : Seq(BranchRecord)]

\* Where the next branch starts.
LayoutEnd(l) ==
    IF l.branches = <<>> THEN l.original ELSE l.branches[Len(l.branches)].end

\* A branch is a probe behind its prefix, in place.
BranchOK(c, l, i) ==
    LET b == l.branches[i]
    IN /\ b.visible = c.prompt + BoundaryEnds(c)[i]
       /\ b.start = IF i = 1 THEN l.original ELSE l.branches[i - 1].end
       /\ b.end = b.start + c.probe
       /\ l.original <= b.start /\ b.end <= Len(l.ids)
       /\ b.answers = [a \in DOMAIN c.answers |-> b.start + c.answers[a]]
       /\ \A k \in 1 .. c.probe :
             /\ l.ids[b.start + k] = <<"probe", k>>
             /\ l.positions[b.start + k] = b.visible + k - 1

LayoutInv(c, l) ==
    /\ l \in LayoutRecord
    /\ l.original = c.prompt + c.response
    /\ Len(l.positions) = Len(l.ids) /\ Len(l.ids) = LayoutEnd(l)
    /\ l.original <= Len(l.ids)
    /\ Len(l.branches) <= Len(BoundaryEnds(c))
    /\ \A k \in 1 .. l.original :
          /\ l.ids[k] = IF k <= c.prompt THEN <<"prompt", k>> ELSE <<"response", k - c.prompt>>
          /\ l.positions[k] = k - 1
    /\ \A i \in 1 .. Len(l.branches) : BranchOK(c, l, i)
    /\ \A i, j \in 1 .. Len(l.branches) : i < j => l.branches[i].end <= l.branches[j].start

\* The facts about a case that the code has checked.
ProbeCase(c) ==
    /\ c \in [prompt : Nat \ {0}, response : Nat, ends : Seq(Nat), probe : Nat \ {0},
              answers : Seq(Nat)]
    /\ \A i \in DOMAIN c.ends : c.ends[i] <= c.response
    /\ c.answers # <<>>
    /\ \A a \in DOMAIN c.answers : c.answers[a] \in 1 .. (c.probe - 1)

LEMMA ProbeCasesAre == \A c \in ProbeCases : ProbeCase(c)
BY ProbeAssumption DEF ProbeCase

\* n tokens of one origin.
LEMMA TokensAre ==
    ASSUME NEW tag \in {"prompt", "response", "probe"}, NEW n \in Nat
    PROVE  /\ Tokens(tag, n) \in Seq(Token)
           /\ Len(Tokens(tag, n)) = n
           /\ DOMAIN Tokens(tag, n) = 1 .. n
           /\ \A k \in 1 .. n : Tokens(tag, n)[k] = <<tag, k>>
BY DEF Tokens, Token

\* A range of integers.
LEMMA RangeIs ==
    ASSUME NEW from \in Nat, NEW to \in Nat, from <= to
    PROVE  /\ Range0(from, to) \in Seq(Nat)
           /\ Len(Range0(from, to)) = to - from
           /\ DOMAIN Range0(from, to) = 1 .. to - from
           /\ \A k \in 1 .. to - from : Range0(from, to)[k] = from + k - 1
BY DEF Range0

\* The boundaries: the start of the response and the ends of the steps.
LEMMA BoundariesAre ==
    ASSUME NEW c, ProbeCase(c)
    PROVE  /\ BoundaryEnds(c) \in Seq(Nat)
           /\ Len(BoundaryEnds(c)) = Len(c.ends) + 1
           /\ \A i \in 1 .. Len(BoundaryEnds(c)) :
                 BoundaryEnds(c)[i] \in Nat /\ BoundaryEnds(c)[i] <= c.response
<1>1. c.ends \in Seq(Nat) /\ c.response \in Nat BY DEF ProbeCase
<1>2. <<0>> \in Seq(Nat) /\ Len(<<0>>) = 1 /\ <<0>>[1] = 0 OBVIOUS
<1>3. /\ BoundaryEnds(c) \in Seq(Nat)
      /\ Len(BoundaryEnds(c)) = 1 + Len(c.ends)
      /\ \A i \in 1 .. 1 + Len(c.ends) :
            BoundaryEnds(c)[i] = IF i <= 1 THEN <<0>>[i] ELSE c.ends[i - 1]
    BY <1>1, <1>2, ConcatProperties DEF BoundaryEnds
<1>4. Len(c.ends) \in Nat /\ DOMAIN c.ends = 1 .. Len(c.ends) BY <1>1, LenProperties
<1>5. ASSUME NEW i \in 1 .. Len(BoundaryEnds(c))
      PROVE  BoundaryEnds(c)[i] \in Nat /\ BoundaryEnds(c)[i] <= c.response
  <2>1. CASE i = 1 BY <1>1, <1>2, <1>3, <1>4, <2>1
  <2>2. CASE i # 1
    <3>1. i - 1 \in DOMAIN c.ends BY <1>3, <1>4, <2>2
    <3>2. c.ends[i - 1] \in Nat BY <1>1, <1>4, <3>1, ElementOfSeq
    <3>3. c.ends[i - 1] <= c.response BY <3>1 DEF ProbeCase
    <3>4. BoundaryEnds(c)[i] = c.ends[i - 1] BY <1>3, <2>2
    <3> QED BY <3>2, <3>3, <3>4
  <2> QED BY <2>1, <2>2
<1> QED BY <1>3, <1>4, <1>5

LEMMA StartIsLayout ==
    ASSUME NEW c, ProbeCase(c)
    PROVE  LayoutInv(c, StartLayout(c))
<1> DEFINE l == StartLayout(c)
<1>1. c.prompt \in Nat \ {0} /\ c.response \in Nat BY DEF ProbeCase
<1>2. Prompt(c) \in Seq(Token) /\ Len(Prompt(c)) = c.prompt
      /\ \A k \in 1 .. c.prompt : Prompt(c)[k] = <<"prompt", k>>
    BY <1>1, TokensAre DEF Prompt
<1>3. Response(c) \in Seq(Token) /\ Len(Response(c)) = c.response
      /\ \A k \in 1 .. c.response : Response(c)[k] = <<"response", k>>
    BY <1>1, TokensAre DEF Response
<1>4. /\ Prompt(c) \o Response(c) \in Seq(Token)
      /\ Len(Prompt(c) \o Response(c)) = c.prompt + c.response
      /\ \A k \in 1 .. c.prompt + c.response :
            (Prompt(c) \o Response(c))[k]
              = IF k <= c.prompt THEN Prompt(c)[k] ELSE Response(c)[k - c.prompt]
  <2> DEFINE a == Prompt(c)
             b == Response(c)
  <2>1. a \in Seq(Token) /\ b \in Seq(Token) BY <1>2, <1>3
  <2>2. Len(a) = c.prompt /\ Len(b) = c.response BY <1>2, <1>3
  <2> HIDE DEF a, b
  <2>3. /\ a \o b \in Seq(Token) /\ Len(a \o b) = Len(a) + Len(b)
        /\ \A k \in 1 .. Len(a) + Len(b) :
              (a \o b)[k] = IF k <= Len(a) THEN a[k] ELSE b[k - Len(a)]
      BY <2>1, ConcatProperties, Zenon
  <2> QED BY <2>2, <2>3, Zenon DEF a, b
<1>5. /\ l.ids = Prompt(c) \o Response(c) /\ l.positions = Range0(0, c.prompt + c.response)
      /\ l.original = c.prompt + c.response /\ l.branches = <<>>
    BY DEF StartLayout
<1>6. /\ l.positions \in Seq(Nat) /\ Len(l.positions) = c.prompt + c.response
      /\ \A k \in 1 .. c.prompt + c.response : l.positions[k] = k - 1
    BY <1>1, <1>5, RangeIs
<1>7. l \in LayoutRecord BY <1>1, <1>4, <1>6 DEF StartLayout, LayoutRecord
<1>8. Len(l.branches) = 0 BY <1>5
<1>9. Len(l.branches) <= Len(BoundaryEnds(c)) BY <1>8, BoundariesAre, LenProperties
<1>10. \A k \in 1 .. l.original :
          /\ l.ids[k] = IF k <= c.prompt THEN <<"prompt", k>> ELSE <<"response", k - c.prompt>>
          /\ l.positions[k] = k - 1
  <2> HIDE DEF l
  <2> SUFFICES ASSUME NEW k \in 1 .. c.prompt + c.response
               PROVE  /\ l.ids[k] = IF k <= c.prompt THEN <<"prompt", k>>
                                                     ELSE <<"response", k - c.prompt>>
                      /\ l.positions[k] = k - 1
      BY <1>5
  <2>1. l.ids[k] = IF k <= c.prompt THEN Prompt(c)[k] ELSE Response(c)[k - c.prompt]
      BY <1>2, <1>3, <1>4, <1>5
  <2>2. CASE k <= c.prompt
    <3>1. k \in 1 .. c.prompt BY <1>1, <2>2
    <3> QED BY <1>2, <1>6, <2>1, <2>2, <3>1
  <2>3. CASE ~(k <= c.prompt)
    <3>1. k - c.prompt \in 1 .. c.response BY <1>1, <2>3
    <3> QED BY <1>3, <1>6, <2>1, <2>3, <3>1
  <2> QED BY <2>2, <2>3
<1>11. Len(l.ids) = l.original /\ LayoutEnd(l) = l.original BY <1>4, <1>5 DEF LayoutEnd
<1>12. l.original \in Nat /\ Len(l.positions) = l.original /\ l.original <= l.original
    BY <1>1, <1>5, <1>6
<1> HIDE DEF l
<1>13. 1 .. Len(l.branches) = {} BY <1>8
<1>14. LayoutInv(c, l)
    BY <1>5, <1>7, <1>9, <1>10, <1>11, <1>12, <1>13 DEF LayoutInv
<1> QED BY <1>14 DEF l

\* One more probe: what is laid out stays, and the new branch is as it should be.
LEMMA AppendKeepsLayout ==
    ASSUME NEW c, ProbeCase(c), NEW l, LayoutInv(c, l), ~LaidOut(c, l)
    PROVE  LayoutInv(c, AppendBranch(c, l))
<1> DEFINE m == AppendBranch(c, l)
           n == Len(l.branches)
           start == Len(l.ids)
           visible == c.prompt + BoundaryEnds(c)[n + 1]
           new == [visible |-> visible, start |-> start, end |-> start + c.probe,
                   answers |-> [a \in DOMAIN c.answers |-> start + c.answers[a]]]
<1>1. /\ c.prompt \in Nat \ {0} /\ c.response \in Nat /\ c.probe \in Nat \ {0}
      /\ c.answers \in Seq(Nat)
    BY DEF ProbeCase
<1>2. /\ l.ids \in Seq(Token) /\ l.positions \in Seq(Nat) /\ l.original \in Nat
      /\ l.branches \in Seq(BranchRecord)
    BY DEF LayoutInv, LayoutRecord
<1>3. n \in Nat /\ start \in Nat /\ Len(l.positions) = start BY <1>2, LenProperties DEF LayoutInv
<1>4. /\ BoundaryEnds(c) \in Seq(Nat) /\ Len(BoundaryEnds(c)) \in Nat
      /\ \A i \in 1 .. Len(BoundaryEnds(c)) : BoundaryEnds(c)[i] \in Nat
    BY BoundariesAre, LenProperties
<1>5. n + 1 <= Len(BoundaryEnds(c)) BY <1>3, <1>4 DEF LayoutInv, LaidOut
<1>6. visible \in Nat
  <2>1. n + 1 \in 1 .. Len(BoundaryEnds(c)) BY <1>3, <1>4, <1>5
  <2>2. BoundaryEnds(c)[n + 1] \in Nat BY <1>4, <2>1
  <2> QED BY <1>1, <2>2
<1>7. m = [ids |-> l.ids \o Probe(c), positions |-> l.positions \o ProbePositions(visible, c.probe),
           original |-> l.original, branches |-> Append(l.branches, new)]
    BY Zenon DEF AppendBranch
<1> HIDE DEF m
<1>8. /\ m.ids = l.ids \o Probe(c) /\ m.original = l.original
       /\ m.positions = l.positions \o ProbePositions(visible, c.probe)
       /\ m.branches = Append(l.branches, new)
  <2> HIDE DEF new, visible
  <2> QED BY <1>7
<1>9. /\ Probe(c) \in Seq(Token) /\ Len(Probe(c)) = c.probe
      /\ \A k \in 1 .. c.probe : Probe(c)[k] = <<"probe", k>>
    BY <1>1, TokensAre DEF Probe
<1>10. /\ ProbePositions(visible, c.probe) \in Seq(Nat)
      /\ Len(ProbePositions(visible, c.probe)) = c.probe
      /\ \A k \in 1 .. c.probe : ProbePositions(visible, c.probe)[k] = visible + k - 1
  <2>1. visible + c.probe \in Nat /\ visible <= visible + c.probe
        /\ (visible + c.probe) - visible = c.probe
      BY <1>1, <1>6
  <2> QED BY <1>6, <2>1, RangeIs DEF ProbePositions
<1>11. new \in BranchRecord
  <2>1. DOMAIN c.answers = 1 .. Len(c.answers) /\ Len(c.answers) \in Nat
      BY <1>1, LenProperties
  <2>2. \A a \in 1 .. Len(c.answers) : start + c.answers[a] \in Nat
    <3>1. \A a \in 1 .. Len(c.answers) : c.answers[a] \in Nat BY <1>1, ElementOfSeq
    <3> HIDE DEF start
    <3> QED BY <1>3, <3>1
  <2>3. [a \in DOMAIN c.answers |-> start + c.answers[a]] \in Seq(Nat) BY <2>1, <2>2
  <2> QED BY <1>1, <1>3, <1>6, <2>3 DEF BranchRecord
<1>12. /\ m.ids \in Seq(Token) /\ Len(m.ids) = start + c.probe
       /\ \A k \in 1 .. start : m.ids[k] = l.ids[k]
       /\ \A k \in 1 .. c.probe : m.ids[start + k] = <<"probe", k>>
  <2>1. m.ids = l.ids \o Probe(c) BY <1>8
  <2>2. /\ m.ids \in Seq(Token) /\ Len(m.ids) = start + c.probe
        /\ \A k \in 1 .. start + c.probe :
              m.ids[k] = IF k <= start THEN l.ids[k] ELSE Probe(c)[k - start]
    <3>1. Len(l.ids \o Probe(c)) = Len(l.ids) + Len(Probe(c)) /\ l.ids \o Probe(c) \in Seq(Token)
        BY <1>2, <1>9, ConcatProperties, Zenon
    <3>2. \A k \in 1 .. Len(l.ids) + Len(Probe(c)) :
             (l.ids \o Probe(c))[k] = IF k <= Len(l.ids) THEN l.ids[k] ELSE Probe(c)[k - Len(l.ids)]
        BY <1>2, <1>9, ConcatProperties, Zenon
    <3> QED BY <1>9, <2>1, <3>1, <3>2
  <2> HIDE DEF start
  <2>3. \A k \in 1 .. start : k \in 1 .. start + c.probe /\ k <= start BY <1>1, <1>3
  <2>4. \A k \in 1 .. c.probe : /\ start + k \in 1 .. start + c.probe
                               /\ ~(start + k <= start) /\ (start + k) - start = k
      BY <1>1, <1>3
  <2> QED BY <1>9, <2>2, <2>3, <2>4
<1>13. /\ m.positions \in Seq(Nat) /\ Len(m.positions) = start + c.probe
       /\ \A k \in 1 .. start : m.positions[k] = l.positions[k]
       /\ \A k \in 1 .. c.probe : m.positions[start + k] = visible + k - 1
  <2>1. m.positions = l.positions \o ProbePositions(visible, c.probe) BY <1>8
  <2>2. /\ m.positions \in Seq(Nat) /\ Len(m.positions) = start + c.probe
        /\ \A k \in 1 .. start + c.probe :
              m.positions[k] = IF k <= start THEN l.positions[k]
                               ELSE ProbePositions(visible, c.probe)[k - start]
    <3> HIDE DEF visible
    <3> DEFINE p == ProbePositions(visible, c.probe)
    <3>1. Len(l.positions \o p) = Len(l.positions) + Len(p) /\ l.positions \o p \in Seq(Nat)
        BY <1>2, <1>10, ConcatProperties, Zenon
    <3>2. \A k \in 1 .. Len(l.positions) + Len(p) :
             (l.positions \o p)[k] = IF k <= Len(l.positions) THEN l.positions[k]
                                     ELSE p[k - Len(l.positions)]
        BY <1>2, <1>10, ConcatProperties, Zenon
    <3> QED BY <1>3, <1>10, <2>1, <3>1, <3>2
  <2> HIDE DEF start, visible
  <2>3. \A k \in 1 .. start : k \in 1 .. start + c.probe /\ k <= start BY <1>1, <1>3
  <2>4. \A k \in 1 .. c.probe : /\ start + k \in 1 .. start + c.probe
                               /\ ~(start + k <= start) /\ (start + k) - start = k
      BY <1>1, <1>3
  <2> QED BY <1>10, <2>2, <2>3, <2>4
<1>14. /\ m.branches \in Seq(BranchRecord) /\ Len(m.branches) = n + 1
       /\ \A i \in 1 .. n : m.branches[i] = l.branches[i]
       /\ m.branches[n + 1] = new /\ m.branches # <<>>
  <2>1. m.branches = Append(l.branches, new) BY <1>8
  <2> QED BY <1>2, <1>11, <2>1, AppendProperties
<1>15. m.original = l.original /\ l.original = c.prompt + c.response /\ l.original <= start
    BY <1>8 DEF LayoutInv
<1>16. m \in LayoutRecord BY <1>2, <1>7, <1>12, <1>13, <1>14 DEF LayoutRecord
<1>17. new.start = start /\ new.end = start + c.probe /\ new.visible = visible
       /\ new.answers = [a \in DOMAIN c.answers |-> start + c.answers[a]]
    OBVIOUS
<1>18. start = IF n = 0 THEN l.original ELSE l.branches[n].end
  <2>1. n = 0 <=> l.branches = <<>> BY <1>2, EmptySeq
  <2> QED BY <1>3, <2>1 DEF LayoutInv, LayoutEnd
<1>19. LayoutEnd(m) = start + c.probe BY <1>14, <1>17 DEF LayoutEnd
<1> HIDE DEF n, start, visible, new
<1>20. ASSUME NEW i \in 1 .. Len(m.branches) PROVE BranchOK(c, m, i)
  <2>1. CASE i = n + 1
    <3>1. m.branches[i] = new BY <1>14, <2>1
    <3>2. new.visible = c.prompt + BoundaryEnds(c)[i] BY <1>17, <2>1 DEF visible
    <3>3. new.start = IF i = 1 THEN m.original ELSE m.branches[i - 1].end
      <4>1. CASE n = 0 BY <1>15, <1>17, <1>18, <2>1, <4>1
      <4>2. CASE n # 0
        <5>1. i # 1 /\ i - 1 = n /\ n \in 1 .. n BY <1>3, <2>1, <4>2
        <5> QED BY <1>14, <1>17, <1>18, <4>2, <5>1
      <4> QED BY <4>1, <4>2
    <3>4. m.original <= new.start /\ new.end <= Len(m.ids)
      <4>1. m.original <= start BY <1>15
      <4>2. Len(m.ids) = start + c.probe BY <1>12
      <4>3. start + c.probe \in Nat BY <1>1, <1>3
      <4>4. start + c.probe <= Len(m.ids) BY <4>2, <4>3
      <4> QED BY <1>17, <4>1, <4>4
    <3> QED BY <1>12, <1>13, <1>17, <3>1, <3>2, <3>3, <3>4 DEF BranchOK
  <2>2. CASE i \in 1 .. n
    <3>1. BranchOK(c, l, i) BY <2>2 DEF LayoutInv, n
    <3>2. m.branches[i] = l.branches[i] BY <1>14, <2>2
    <3>3. IF i = 1 THEN TRUE ELSE m.branches[i - 1] = l.branches[i - 1]
        BY <1>3, <1>14, <2>2
    <3>4. l.branches[i] \in BranchRecord BY <1>2, <2>2, ElementOfSeq DEF n
    <3>5. /\ l.branches[i].start \in Nat /\ l.branches[i].end <= start
          /\ l.branches[i].end = l.branches[i].start + c.probe
        BY <3>1, <3>4 DEF BranchOK, BranchRecord, start
    <3>6. l.branches[i].end <= Len(m.ids)
      <4> DEFINE e == l.branches[i].end
      <4>1. e \in Nat /\ e <= start BY <1>1, <3>5
      <4>2. Len(m.ids) = start + c.probe BY <1>12
      <4> HIDE DEF e
      <4>3. e <= Len(m.ids) BY <1>1, <1>3, <4>1, <4>2
      <4> QED BY <4>3 DEF e
    <3>7. \A k \in 1 .. c.probe : l.branches[i].start + k \in 1 .. start
      <4> DEFINE s == l.branches[i].start
      <4>1. s \in Nat /\ s + c.probe <= start BY <3>5
      <4> HIDE DEF s
      <4>2. \A k \in 1 .. c.probe : s + k \in 1 .. start BY <1>1, <1>3, <4>1
      <4> QED BY <4>2 DEF s
    <3>8. \A k \in 1 .. c.probe :
            /\ m.ids[l.branches[i].start + k] = <<"probe", k>>
            /\ m.positions[l.branches[i].start + k] = l.branches[i].visible + k - 1
        BY <1>12, <1>13, <3>1, <3>7 DEF BranchOK
    <3>9. l.branches[i].start = IF i = 1 THEN m.original ELSE m.branches[i - 1].end
        BY <1>15, <3>1, <3>3 DEF BranchOK
    <3> QED BY <1>15, <3>1, <3>2, <3>6, <3>8, <3>9 DEF BranchOK
  <2> QED BY <1>3, <1>14, <2>1, <2>2
<1>21. ASSUME NEW i \in 1 .. Len(m.branches), NEW j \in 1 .. Len(m.branches), i < j
       PROVE  m.branches[i].end <= m.branches[j].start
  <2>1. i \in 1 .. n BY <1>3, <1>14, <1>21
  <2>2. CASE j = n + 1
    <3>1. l.branches[i].end <= start BY <2>1 DEF LayoutInv, BranchOK, n, start
    <3> QED BY <1>14, <1>17, <2>1, <2>2, <3>1
  <2>3. CASE j \in 1 .. n
    <3>1. l.branches[i].end <= l.branches[j].start BY <1>21, <2>1, <2>3 DEF LayoutInv, n
    <3> QED BY <1>14, <2>1, <2>3, <3>1
  <2> QED BY <1>3, <1>14, <2>2, <2>3
<1>22. ASSUME NEW k \in 1 .. m.original
       PROVE  /\ m.ids[k] = IF k <= c.prompt THEN <<"prompt", k>> ELSE <<"response", k - c.prompt>>
              /\ m.positions[k] = k - 1
  <2>1. k \in 1 .. l.original /\ k \in 1 .. start BY <1>2, <1>3, <1>15
  <2>2. m.ids[k] = l.ids[k] /\ m.positions[k] = l.positions[k] BY <1>12, <1>13, <2>1
  <2> QED BY <2>1, <2>2 DEF LayoutInv
<1>23. m.original <= Len(m.ids) BY <1>1, <1>2, <1>3, <1>12, <1>15
<1>24. Len(m.positions) = Len(m.ids) /\ Len(m.ids) = LayoutEnd(m) BY <1>12, <1>13, <1>19
<1>25. Len(m.branches) <= Len(BoundaryEnds(c)) BY <1>5, <1>14
<1>26. LayoutInv(c, m)
    BY <1>15, <1>16, <1>20, <1>21, <1>22, <1>23, <1>24, <1>25 DEF LayoutInv
<1> QED BY <1>26 DEF m

LEMMA BranchesAre ==
    ASSUME NEW c, ProbeCase(c), NEW l, LayoutInv(c, l)
    PROVE  /\ Len(l.branches) \in Nat /\ DOMAIN l.branches = 1 .. Len(l.branches)
           /\ Len(l.ids) \in Nat /\ l.original \in Nat \ {0}
           /\ \A i \in 1 .. Len(l.branches) :
                 LET b == l.branches[i]
                 IN /\ BranchOK(c, l, i)
                    /\ b.visible \in Nat \ {0} /\ b.visible <= l.original
                    /\ b.start \in Nat /\ b.end \in Nat /\ b.start < b.end
                    /\ b.end = b.start + c.probe /\ l.original <= b.start
                    /\ b.end <= Len(l.ids)
<1>1. /\ c.prompt \in Nat \ {0} /\ c.response \in Nat /\ c.probe \in Nat \ {0}
    BY DEF ProbeCase
<1>2. /\ l.ids \in Seq(Token) /\ l.branches \in Seq(BranchRecord)
      /\ l.original = c.prompt + c.response
    BY DEF LayoutInv, LayoutRecord
<1>3. Len(l.branches) \in Nat /\ DOMAIN l.branches = 1 .. Len(l.branches) /\ Len(l.ids) \in Nat
    BY <1>2, LenProperties
<1>4. ASSUME NEW i \in 1 .. Len(l.branches)
      PROVE  LET b == l.branches[i]
             IN /\ BranchOK(c, l, i)
                /\ b.visible \in Nat \ {0} /\ b.visible <= l.original
                /\ b.start \in Nat /\ b.end \in Nat /\ b.start < b.end
                /\ b.end = b.start + c.probe /\ l.original <= b.start /\ b.end <= Len(l.ids)
  <2> DEFINE b == l.branches[i]
  <2>1. BranchOK(c, l, i) BY DEF LayoutInv
  <2>2. b \in BranchRecord BY <1>2, ElementOfSeq
  <2>3. b.start \in Nat /\ b.end \in Nat BY <2>2 DEF BranchRecord
  <2>4. /\ b.visible = c.prompt + BoundaryEnds(c)[i] /\ b.end = b.start + c.probe
        /\ l.original <= b.start /\ b.end <= Len(l.ids)
      BY <2>1 DEF BranchOK
  <2>5. i \in 1 .. Len(BoundaryEnds(c))
    <3>1. Len(l.branches) <= Len(BoundaryEnds(c)) BY DEF LayoutInv
    <3>2. Len(BoundaryEnds(c)) \in Nat BY BoundariesAre, LenProperties
    <3> QED BY <1>3, <3>1, <3>2
  <2>6. BoundaryEnds(c)[i] \in Nat /\ BoundaryEnds(c)[i] <= c.response
      BY <2>5, BoundariesAre
  <2> HIDE DEF b
  <2>7. b.visible \in Nat \ {0} /\ b.visible <= l.original
      BY <1>1, <1>2, <2>4, <2>6
  <2>8. b.start < b.end BY <1>1, <2>3, <2>4
  <2> QED BY <2>1, <2>3, <2>4, <2>7, <2>8 DEF b
<1> QED BY <1>1, <1>2, <1>3, <1>4

\* n consecutive positions, from v on.
RunsFrom(s, from, n, v) ==
    /\ s \in Seq(Nat) /\ from \in Nat /\ n \in Nat /\ v \in Nat
    /\ from + n <= Len(s) /\ \A k \in 1 .. n : s[from + k] = v + k - 1

\* A run of consecutive positions is a range.
LEMMA SubSeqIsRange ==
    ASSUME NEW s, NEW from, NEW n, NEW v, RunsFrom(s, from, n, v)
    PROVE  SubSeq(s, from + 1, from + n) = Range0(v, v + n)
<1> SUFFICES ASSUME s \in Seq(Nat), from \in Nat, n \in Nat, v \in Nat,
                    from + n <= Len(s), \A k \in 1 .. n : s[from + k] = v + k - 1
             PROVE  SubSeq(s, from + 1, from + n) = Range0(v, v + n)
    BY Zenon DEF RunsFrom
<1> DEFINE t == SubSeq(s, from + 1, from + n)
           r == Range0(v, v + n)
<1>1. Len(s) \in Nat BY LenProperties
<1>2. \A k \in from + 1 .. from + n : s[k] \in Nat
  <2>1. \A k \in from + 1 .. from + n : k \in 1 .. Len(s) BY <1>1
  <2> QED BY <2>1, ElementOfSeq
<1>3. from + 1 \in Int /\ from + n \in Int OBVIOUS
<1>4. /\ t \in Seq(Nat)
      /\ Len(t) = IF from + 1 <= from + n THEN (from + n) - (from + 1) + 1 ELSE 0
      /\ \A k \in 1 .. (from + n) - (from + 1) + 1 : t[k] = s[(from + 1) + k - 1]
    BY <1>2, <1>3, SubSeqProperties
<1>5. /\ r \in Seq(Nat) /\ Len(r) = (v + n) - v
      /\ \A k \in 1 .. (v + n) - v : r[k] = v + k - 1
  <2>1. v + n \in Nat /\ v <= v + n OBVIOUS
  <2> QED BY <2>1, RangeIs
<1> HIDE DEF t, r
<1>6. Len(t) = n /\ Len(r) = n BY <1>4, <1>5
<1>7. ASSUME NEW k \in 1 .. Len(t) PROVE t[k] = r[k]
  <2>1. k \in 1 .. n /\ k \in 1 .. (from + n) - (from + 1) + 1 /\ k \in 1 .. (v + n) - v
      BY <1>6
  <2>2. t[k] = s[(from + 1) + k - 1] /\ r[k] = v + k - 1 BY <1>4, <1>5, <2>1, Zenon
  <2>3. (from + 1) + k - 1 = from + k OBVIOUS
  <2> QED BY <2>1, <2>2, <2>3
<1>8. t = r
  <2>1. t \in Seq(Nat) /\ r \in Seq(Nat) /\ Len(t) = Len(r) BY <1>4, <1>5, <1>6
  <2> QED BY <1>7, <2>1, SeqEqual
<1> QED BY <1>8 DEF t, r

\* Both validations accept the layout.
LEMMA LayoutIsAccepted ==
    ASSUME NEW c, ProbeCase(c), NEW l, LayoutInv(c, l), LaidOut(c, l)
    PROVE  Accepts(l)
<1> DEFINE n == Len(l.ids)
           b == l.branches
<1>1. /\ l.ids \in Seq(Token) /\ l.positions \in Seq(Nat) /\ b \in Seq(BranchRecord)
    BY DEF LayoutInv, LayoutRecord
<1>2. /\ Len(b) \in Nat /\ DOMAIN b = 1 .. Len(b) /\ n \in Nat /\ l.original \in Nat \ {0}
    BY BranchesAre
<1>3. Len(l.positions) = n /\ l.original <= n BY DEF LayoutInv
<1>4. SubSeq(l.positions, 1, l.original) = Range0(0, l.original)
  <2>1. \A k \in 1 .. l.original : l.positions[k] = k - 1 BY DEF LayoutInv
  <2>2. \A k \in 1 .. l.original : l.positions[0 + k] = 0 + k - 1
    <3> SUFFICES ASSUME NEW k \in 1 .. l.original PROVE l.positions[0 + k] = 0 + k - 1
        OBVIOUS
    <3>1. 0 + k = k /\ l.positions[k] = k - 1 BY <2>1
    <3> QED BY <3>1
  <2>3. 0 + l.original <= Len(l.positions) /\ 0 \in Nat /\ l.original \in Nat BY <1>2, <1>3
  <2>4. RunsFrom(l.positions, 0, l.original, 0) BY <1>1, <2>2, <2>3, Zenon DEF RunsFrom
  <2>6. SubSeq(l.positions, 0 + 1, 0 + l.original) = Range0(0, 0 + l.original)
      BY <2>4, SubSeqIsRange, Zenon
  <2>5. 0 + l.original = l.original /\ 0 + 1 = 1 BY <1>2
  <2> QED BY <2>5, <2>6, Zenon
<1>5. Len(b) >= 1 /\ b # <<>>
  <2>1. Len(b) = Len(c.ends) + 1 BY BoundariesAre DEF LaidOut
  <2>2. c.ends \in Seq(Nat) BY DEF ProbeCase
  <2>3. Len(c.ends) \in Nat BY <2>2, LenProperties
  <2>4. Len(b) >= 1 BY <2>1, <2>3
  <2> HIDE DEF b
  <2>5. b # <<>> BY <2>4
  <2> QED BY <2>4, <2>5
<1>6. b[Len(b)].end = n BY <1>5 DEF LayoutInv, LayoutEnd
<1>7. ASSUME NEW i \in 1 .. Len(b)
      PROVE  /\ b[i].start = IF i = 1 THEN l.original ELSE b[i - 1].end
             /\ 1 <= b[i].visible /\ b[i].visible <= l.original
             /\ l.original <= b[i].start /\ b[i].start < b[i].end /\ b[i].end <= n
             /\ SubSeq(l.positions, b[i].start + 1, b[i].end)
                  = ProbePositions(b[i].visible, b[i].end - b[i].start)
             /\ b[i].answers # <<>>
             /\ \A a \in DOMAIN b[i].answers :
                  b[i].start < b[i].answers[a] /\ b[i].answers[a] < b[i].end
  <2>1. /\ BranchOK(c, l, i) /\ b[i].visible \in Nat \ {0} /\ b[i].visible <= l.original
        /\ b[i].start \in Nat /\ b[i].end \in Nat /\ b[i].start < b[i].end
        /\ b[i].end = b[i].start + c.probe /\ l.original <= b[i].start /\ b[i].end <= n
      BY BranchesAre
  <2>2. c.probe \in Nat \ {0} /\ c.answers \in Seq(Nat) /\ c.answers # <<>> BY DEF ProbeCase
  <2>3. b[i].end - b[i].start = c.probe
    <3> DEFINE s == b[i].start
               e == b[i].end
    <3>1. s \in Nat /\ e = s + c.probe BY <2>1
    <3>2. c.probe \in Nat BY <2>2
    <3> HIDE DEF s, e
    <3>3. e - s = c.probe BY <3>1, <3>2
    <3> QED BY <3>3 DEF s, e
  <2>6. SubSeq(l.positions, b[i].start + 1, b[i].end)
          = ProbePositions(b[i].visible, b[i].end - b[i].start)
    <3>1. \A k \in 1 .. c.probe : l.positions[b[i].start + k] = b[i].visible + k - 1
        BY <2>1 DEF BranchOK
    <3>2. b[i].start + c.probe <= Len(l.positions) BY <1>3, <2>1, <2>2
    <3>3. SubSeq(l.positions, b[i].start + 1, b[i].start + c.probe)
            = Range0(b[i].visible, b[i].visible + c.probe)
      <4> DEFINE s == b[i].start
                 v == b[i].visible
      <4>1. l.positions \in Seq(Nat) /\ s \in Nat /\ c.probe \in Nat /\ v \in Nat
          BY <1>1, <2>1, <2>2
      <4>2. s + c.probe <= Len(l.positions) BY <3>2
      <4>3. \A k \in 1 .. c.probe : l.positions[s + k] = v + k - 1 BY <3>1
      <4> HIDE DEF s, v
      <4>4. RunsFrom(l.positions, s, c.probe, v) BY <4>1, <4>2, <4>3, Zenon DEF RunsFrom
      <4>5. SubSeq(l.positions, s + 1, s + c.probe) = Range0(v, v + c.probe)
          BY <4>4, SubSeqIsRange, Zenon
      <4> QED BY <4>5 DEF s, v
    <3> QED BY <2>1, <2>3, <3>3, Zenon DEF ProbePositions
  <2>7. /\ b[i].answers = [a \in DOMAIN c.answers |-> b[i].start + c.answers[a]]
        /\ b[i].start = IF i = 1 THEN l.original ELSE b[i - 1].end
      BY <2>1 DEF BranchOK
  <2>8. DOMAIN c.answers # {}
    <3>1. Len(c.answers) \in Nat \ {0} /\ DOMAIN c.answers = 1 .. Len(c.answers)
        BY <2>2, EmptySeq, LenProperties, Zenon
    <3>2. 1 \in DOMAIN c.answers BY <3>1
    <3> QED BY <3>2
  <2>9. b[i].answers # <<>> BY <2>7, <2>8
  <2>10. ASSUME NEW a \in DOMAIN b[i].answers
         PROVE  b[i].start < b[i].answers[a] /\ b[i].answers[a] < b[i].end
    <3>1. a \in DOMAIN c.answers /\ b[i].answers[a] = b[i].start + c.answers[a] BY <2>7
    <3>2. c.answers[a] \in 1 .. c.probe - 1 BY <3>1 DEF ProbeCase
    <3> DEFINE s == b[i].start
               e == b[i].end
               x == c.answers[a]
               n1 == c.probe
    <3>3. s \in Nat /\ e = s + n1 BY <2>1
    <3>4. n1 \in Nat /\ x \in 1 .. n1 - 1 BY <2>2, <3>2
    <3>5. b[i].answers[a] = s + x BY <3>1
    <3> HIDE DEF s, e, x, n1
    <3>6. s < s + x /\ s + x < e BY <3>3, <3>4
    <3> QED BY <3>5, <3>6 DEF s, e
  <2> HIDE DEF b
  <2>11. 1 <= b[i].visible BY <2>1
  <2> QED BY <2>1, <2>6, <2>7, <2>9, <2>10, <2>11, Zenon
<1>8. l.original \in 1 .. n BY <1>2, <1>3
<1> QED BY <1>2, <1>3, <1>4, <1>5, <1>6, <1>7, <1>8 DEF Accepts

\* The keys a segment lets one of its rows see.
LEMMA SegmentSees ==
    ASSUME NEW s, NEW from \in Nat, NEW to \in Nat, from <= to,
           s.queries = Range0(from, to), NEW row \in Nat
    PROVE  SegmentKeys(s, row) = IF from <= row /\ row < to
                                 THEN {s.keys[k] : k \in 1 .. LastKey(s, row - from + 1)} ELSE {}
<1> DEFINE rows == {p \in DOMAIN s.queries : s.queries[p] = row}
<1>1. /\ DOMAIN s.queries = 1 .. to - from
      /\ \A k \in 1 .. to - from : s.queries[k] = from + k - 1
    BY RangeIs
<1>2. SegmentKeys(s, row) = UNION {{s.keys[k] : k \in 1 .. LastKey(s, q)} : q \in rows}
    BY Zenon DEF SegmentKeys
<1>3. CASE from <= row /\ row < to
  <2>1. rows = {row - from + 1}
    <3>1. \A p \in 1 .. to - from : from + p - 1 = row <=> p = row - from + 1 OBVIOUS
    <3>2. row - from + 1 \in 1 .. to - from BY <1>3
    <3> QED BY <1>1, <3>1, <3>2
  <2> HIDE DEF rows
  <2> QED BY <1>2, <1>3, <2>1
<1>4. CASE ~(from <= row /\ row < to)
  <2>1. rows = {}
    <3>1. \A p \in 1 .. to - from : from + p - 1 # row BY <1>4
    <3> QED BY <1>1, <3>1
  <2> HIDE DEF rows
  <2> QED BY <1>2, <1>4, <2>1
<1> QED BY <1>3, <1>4

LEMMA RangeFromZero ==
    ASSUME NEW n \in Nat
    PROVE  /\ Range0(0, n) \in Seq(Nat) /\ Len(Range0(0, n)) = n
           /\ \A k \in 1 .. n : Range0(0, n)[k] = k - 1
BY DEF Range0

LEMMA RolloutSees ==
    ASSUME NEW l, l.original \in Nat, NEW row \in Nat
    PROVE  SegmentKeys(RolloutSegment(l), row) = IF row < l.original THEN 0 .. row ELSE {}
<1> DEFINE s == RolloutSegment(l)
           n == l.original
<1>1. s.queries = Range0(0, n) /\ s.keys = Range0(0, n) BY DEF RolloutSegment
<1>2. Len(Range0(0, n)) = n /\ \A k \in 1 .. n : Range0(0, n)[k] = k - 1
    BY RangeFromZero
<1>3. n \in Nat /\ 0 \in Nat /\ 0 <= n OBVIOUS
<1> SUFFICES SegmentKeys(s, row) = IF row < n THEN 0 .. row ELSE {} OBVIOUS
<1> HIDE DEF s, n
<1>4. LastKey(s, row - 0 + 1) = row + 1 BY <1>1, <1>2, <1>3 DEF LastKey
<1>5. SegmentKeys(s, row) = IF 0 <= row /\ row < n
                            THEN {s.keys[k] : k \in 1 .. LastKey(s, row - 0 + 1)} ELSE {}
    BY <1>1, <1>3, SegmentSees, Zenon
<1>6. CASE row < n
  <2>1. \A k \in 1 .. row + 1 : s.keys[k] = k - 1
    <3>1. \A k \in 1 .. row + 1 : k \in 1 .. n BY <1>3, <1>6
    <3> QED BY <1>1, <1>2, <3>1, Zenon
  <2>2. {s.keys[k] : k \in 1 .. row + 1} = {k - 1 : k \in 1 .. row + 1} BY <2>1, Zenon
  <2>3. {k - 1 : k \in 1 .. row + 1} = 0 .. row
    <3>1. \A x \in 0 .. row : x + 1 \in 1 .. row + 1 /\ x = (x + 1) - 1 OBVIOUS
    <3> QED BY <3>1
  <2>4. 0 <= row OBVIOUS
  <2> QED BY <1>4, <1>5, <1>6, <2>2, <2>3, <2>4, Zenon
<1>7. CASE ~(row < n) BY <1>5, <1>7, Zenon
<1> QED BY <1>6, <1>7

\* The rows of a probe see a prefix and the probe so far.
ProbeSegment(visible, start, end) ==
    [queries |-> Range0(start, end), keys |-> Range0(0, visible) \o Range0(start, end)]

LEMMA ProbeSees ==
    ASSUME NEW visible \in Nat, NEW start \in Nat, NEW end \in Nat, start <= end, NEW row \in Nat
    PROVE  SegmentKeys(ProbeSegment(visible, start, end), row)
             = IF start <= row /\ row < end
               THEN 0 .. (visible - 1) \cup start .. row ELSE {}
<1> DEFINE s == ProbeSegment(visible, start, end)
<1>6. /\ s.queries = Range0(start, end)
      /\ s.keys = Range0(0, visible) \o Range0(start, end)
    BY DEF ProbeSegment
<1> SUFFICES SegmentKeys(s, row) = IF start <= row /\ row < end
                                   THEN 0 .. (visible - 1) \cup start .. row ELSE {}
    OBVIOUS
<1> HIDE DEF s
<1>1. Len(s.keys) - Len(s.queries) = visible
  <2>1. /\ Range0(0, visible) \in Seq(Nat) /\ Len(Range0(0, visible)) = visible
        /\ Range0(start, end) \in Seq(Nat) /\ Len(Range0(start, end)) = end - start
      BY RangeFromZero, RangeIs
  <2>2. Len(s.keys) = Len(Range0(0, visible)) + Len(Range0(start, end))
    <3>1. Range0(0, visible) \in Seq(Nat) /\ Range0(start, end) \in Seq(Nat) BY <2>1, Zenon
    <3>2. Len(Range0(0, visible) \o Range0(start, end))
            = Len(Range0(0, visible)) + Len(Range0(start, end))
        BY <3>1, ConcatProperties, Zenon
    <3> QED BY <1>6, <3>2, Zenon
  <2>3. Len(s.keys) = visible + (end - start) /\ Len(s.queries) = end - start
      BY <1>6, <2>1, <2>2, Zenon
  <2> QED BY <2>3
<1>2. LastKey(s, row - start + 1) = visible + (row - start + 1) BY <1>1 DEF LastKey
<1>3. SegmentKeys(s, row) = IF start <= row /\ row < end
                            THEN {s.keys[k] : k \in 1 .. LastKey(s, row - start + 1)} ELSE {}
    BY <1>6, SegmentSees, Zenon
<1>4. CASE start <= row /\ row < end
  <2> DEFINE last == visible + (row - start + 1)
             prefix == Range0(0, visible)
             own == Range0(start, end)
  <2> USE <1>4
  <2>1. /\ prefix \in Seq(Nat) /\ Len(prefix) = visible
        /\ \A k \in 1 .. visible : prefix[k] = k - 1
      BY RangeFromZero
  <2>2. /\ own \in Seq(Nat) /\ Len(own) = end - start
        /\ \A k \in 1 .. end - start : own[k] = start + k - 1
    <3>1. start <= end OBVIOUS
    <3> QED BY <3>1, RangeIs, Zenon
  <2>3. s.keys = prefix \o own BY <1>6
  <2> HIDE DEF prefix, own
  <2>4. \A k \in 1 .. Len(prefix) + Len(own) :
           (prefix \o own)[k] = IF k <= Len(prefix) THEN prefix[k] ELSE own[k - Len(prefix)]
      BY <2>1, <2>2, ConcatProperties, Zenon
  <2>5. ASSUME NEW k \in 1 .. last
        PROVE  s.keys[k] = IF k <= visible THEN k - 1 ELSE start + (k - visible) - 1
    <3>1. k \in 1 .. Len(prefix) + Len(own) BY <2>1, <2>2
    <3>2. s.keys[k] = IF k <= visible THEN prefix[k] ELSE own[k - visible]
        BY <2>1, <2>3, <2>4, <3>1, Zenon
    <3>3. CASE k <= visible
      <4>1. k \in 1 .. visible BY <3>3
      <4> QED BY <2>1, <3>2, <3>3, <4>1
    <3>4. CASE ~(k <= visible)
      <4>1. k - visible \in 1 .. end - start BY <3>4
      <4> QED BY <2>2, <3>2, <3>4, <4>1
    <3> QED BY <3>3, <3>4
  <2>6. ASSUME NEW k \in 1 .. last PROVE s.keys[k] \in 0 .. (visible - 1) \cup start .. row
    <3>1. CASE k <= visible
      <4>1. k - 1 \in 0 .. (visible - 1) BY <3>1
      <4> QED BY <2>5, <3>1, <4>1
    <3>2. CASE ~(k <= visible)
      <4>1. start + (k - visible) - 1 \in start .. row BY <3>2
      <4> QED BY <2>5, <3>2, <4>1
    <3> QED BY <3>1, <3>2
  <2>7. ASSUME NEW x \in 0 .. (visible - 1) PROVE \E k \in 1 .. last : s.keys[k] = x
    <3>1. x + 1 \in 1 .. last /\ x + 1 <= visible /\ (x + 1) - 1 = x OBVIOUS
    <3>2. s.keys[x + 1] = x BY <2>5, <3>1
    <3> QED BY <3>1, <3>2
  <2>8. ASSUME NEW x \in start .. row PROVE \E k \in 1 .. last : s.keys[k] = x
    <3> DEFINE k == visible + (x - start + 1)
    <3>1. k \in 1 .. last /\ ~(k <= visible) /\ start + (k - visible) - 1 = x OBVIOUS
    <3> HIDE DEF k, last
    <3>2. s.keys[k] = x BY <2>5, <3>1
    <3> QED BY <3>1, <3>2
  <2> HIDE DEF last
  <2>9. {s.keys[k] : k \in 1 .. last} = 0 .. (visible - 1) \cup start .. row
      BY <2>6, <2>7, <2>8
  <2> QED BY <1>2, <1>3, <1>4, <2>9, Zenon DEF last
<1>5. CASE ~(start <= row /\ row < end) BY <1>3, <1>5, Zenon
<1> QED BY <1>4, <1>5

LEMMA BranchSees ==
    ASSUME NEW l, NEW b, b.visible \in Nat, b.start \in Nat, b.end \in Nat, b.start <= b.end,
           NEW row \in Nat
    PROVE  SegmentKeys(BranchSegment(l, b), row)
             = IF row \in BranchRows(b) THEN 0 .. (b.visible - 1) \cup b.start .. row ELSE {}
<1>1. BranchSegment(l, b) = ProbeSegment(b.visible, b.start, b.end)
    BY Zenon DEF BranchSegment, VisiblePrefix, ProbeSegment
<1>2. row \in BranchRows(b) <=> b.start <= row /\ row < b.end BY DEF BranchRows
<1>3. SegmentKeys(ProbeSegment(b.visible, b.start, b.end), row)
        = IF b.start <= row /\ row < b.end
          THEN 0 .. (b.visible - 1) \cup b.start .. row ELSE {}
    BY ProbeSees, Zenon
<1> QED BY <1>1, <1>2, <1>3, Zenon

\* Whom a physical row may attend to: a row of the rollout what precedes it, a
\* row of a probe its visible prefix and the probe so far.
LEMMA RowsSee ==
    ASSUME NEW c, ProbeCase(c), NEW l, LayoutInv(c, l), NEW row \in Nat
    PROVE  RaggedKeys(l, row)
             = (IF row < l.original THEN 0 .. row ELSE {}) \cup
               UNION {IF row \in BranchRows(l.branches[i])
                      THEN 0 .. (l.branches[i].visible - 1) \cup l.branches[i].start .. row
                      ELSE {} : i \in 1 .. Len(l.branches)}
<1> DEFINE n == Len(l.branches)
           first == RolloutSegment(l)
           Seg(i) == BranchSegment(l, l.branches[i])
           rest == [i \in DOMAIN l.branches |-> Seg(i)]
           S == {first} \cup {Seg(i) : i \in 1 .. n}
           Sees(i) == IF row \in BranchRows(l.branches[i])
                      THEN 0 .. (l.branches[i].visible - 1) \cup l.branches[i].start .. row
                      ELSE {}
<1>1. n \in Nat /\ DOMAIN l.branches = 1 .. n /\ l.original \in Nat BY BranchesAre
<1>2. \A i \in 1 .. n : SegmentKeys(Seg(i), row) = Sees(i)
  <2> SUFFICES ASSUME NEW i \in 1 .. n PROVE SegmentKeys(Seg(i), row) = Sees(i) OBVIOUS
  <2> DEFINE b == l.branches[i]
  <2>1. b.visible \in Nat /\ b.start \in Nat /\ b.end \in Nat /\ b.start <= b.end
      BY BranchesAre
  <2> HIDE DEF b
  <2>2. SegmentKeys(BranchSegment(l, b), row)
          = IF row \in BranchRows(b) THEN 0 .. (b.visible - 1) \cup b.start .. row ELSE {}
      BY <2>1, BranchSees, Zenon
  <2> QED BY <2>2, Zenon DEF b
<1>3. SegmentKeys(first, row) = IF row < l.original THEN 0 .. row ELSE {}
    BY <1>1, RolloutSees, Zenon
<1>4. Segments(l) = <<first>> \o rest BY Zenon DEF Segments
<1> HIDE DEF n, first, Seg, Sees
<1>5. rest \in Seq(S) /\ Len(rest) = n /\ \A i \in 1 .. n : rest[i] = Seg(i) BY <1>1
<1>6. <<first>> \in Seq(S) /\ Len(<<first>>) = 1 /\ <<first>>[1] = first OBVIOUS
<1> HIDE DEF rest, S
<1>7. /\ <<first>> \o rest \in Seq(S)
      /\ Len(<<first>> \o rest) = 1 + n
      /\ \A i \in 1 .. 1 + n :
            (<<first>> \o rest)[i] = IF i <= 1 THEN <<first>>[i] ELSE rest[i - 1]
    BY <1>5, <1>6, ConcatProperties, Zenon
<1>8. ToSet(Segments(l)) = {first} \cup {Seg(i) : i \in 1 .. n}
  <2> DEFINE s == <<first>> \o rest
  <2>1. DOMAIN s = 1 .. 1 + n BY <1>7, LenProperties, Zenon
  <2>2. s[1] = first /\ 1 \in 1 .. 1 + n BY <1>1, <1>6, <1>7
  <2>3. \A i \in 1 .. n : s[i + 1] = Seg(i) /\ i + 1 \in 1 .. 1 + n
    <3> SUFFICES ASSUME NEW i \in 1 .. n PROVE s[i + 1] = Seg(i) /\ i + 1 \in 1 .. 1 + n
        OBVIOUS
    <3>1. i + 1 \in 1 .. 1 + n /\ ~(i + 1 <= 1) /\ (i + 1) - 1 = i BY <1>1
    <3>2. s[i + 1] = rest[(i + 1) - 1] BY <1>7, <3>1, Zenon
    <3> QED BY <1>5, <3>1, <3>2
  <2>4. \A j \in 1 .. 1 + n : j = 1 \/ \E i \in 1 .. n : j = i + 1
    <3>1. \A j \in 1 .. 1 + n : j # 1 => j - 1 \in 1 .. n /\ j = (j - 1) + 1 BY <1>1
    <3> QED BY <3>1
  <2> HIDE DEF s
  <2>5. {s[j] : j \in DOMAIN s} = {first} \cup {Seg(i) : i \in 1 .. n}
    <3>1. \A j \in DOMAIN s : s[j] \in {first} \cup {Seg(i) : i \in 1 .. n}
        BY <2>1, <2>2, <2>3, <2>4, Zenon
    <3>2. first \in {s[j] : j \in DOMAIN s} BY <2>1, <2>2, Zenon
    <3>3. \A i \in 1 .. n : Seg(i) \in {s[j] : j \in DOMAIN s} BY <2>1, <2>3, Zenon
    <3> QED BY <3>1, <3>2, <3>3, Zenon
  <2> QED BY <1>4, <2>5, Zenon DEF s, ToSet
<1>9. RaggedKeys(l, row) = UNION {SegmentKeys(s, row) : s \in {first} \cup {Seg(i) : i \in 1 .. n}}
    BY <1>8, Zenon DEF RaggedKeys
<1>10. RaggedKeys(l, row) = SegmentKeys(first, row) \cup UNION {SegmentKeys(Seg(i), row) : i \in 1 .. n}
    BY <1>9, Zenon
<1>11. {SegmentKeys(Seg(i), row) : i \in 1 .. n} = {Sees(i) : i \in 1 .. n}
    BY <1>2, Zenon
<1>12. RaggedKeys(l, row) = (IF row < l.original THEN 0 .. row ELSE {}) \cup UNION {Sees(i) : i \in 1 .. n}
    BY <1>3, <1>10, <1>11, Zenon
<1> QED BY <1>12, Zenon DEF Sees, n

\* A physical row past the rollout belongs to one branch at most.
LEMMA OneBranch ==
    ASSUME NEW c, ProbeCase(c), NEW l, LayoutInv(c, l),
           NEW i \in 1 .. Len(l.branches), NEW j \in 1 .. Len(l.branches), NEW row,
           row \in BranchRows(l.branches[i]), row \in BranchRows(l.branches[j])
    PROVE  i = j
<1>1. \A m \in 1 .. Len(l.branches) : l.branches[m].start \in Nat /\ l.branches[m].end \in Nat
    BY BranchesAre
<1>2. /\ l.branches[i].start <= row /\ row < l.branches[i].end /\ row \in Int
      /\ l.branches[j].start <= row /\ row < l.branches[j].end
    BY <1>1 DEF BranchRows
<1>3. \A p, q \in 1 .. Len(l.branches) : p < q => l.branches[p].end <= l.branches[q].start
    BY DEF LayoutInv
<1>4. ~(i < j)
  <2>1. i < j => l.branches[i].end <= l.branches[j].start BY <1>3
  <2> QED BY <1>1, <1>2, <2>1
<1>5. ~(j < i)
  <2>1. j < i => l.branches[j].end <= l.branches[i].start BY <1>3
  <2> QED BY <1>1, <1>2, <2>1
<1> QED BY <1>4, <1>5

LEMMA RolloutRowSees ==
    ASSUME NEW c, ProbeCase(c), NEW l, LayoutInv(c, l), NEW row \in Nat, row < l.original
    PROVE  RaggedKeys(l, row) = 0 .. row
<1>1. \A i \in 1 .. Len(l.branches) : row \notin BranchRows(l.branches[i])
  <2>1. \A i \in 1 .. Len(l.branches) : l.branches[i].start \in Nat /\ l.original <= l.branches[i].start
      BY BranchesAre
  <2>2. l.original \in Nat BY BranchesAre
  <2> QED BY <2>1, <2>2 DEF BranchRows
<1>2. UNION {IF row \in BranchRows(l.branches[i])
             THEN 0 .. (l.branches[i].visible - 1) \cup l.branches[i].start .. row
             ELSE {} : i \in 1 .. Len(l.branches)} = {}
    BY <1>1, Zenon
<1> QED BY <1>2, RowsSee, Zenon

ProbeKeys(b, row) == 0 .. (b.visible - 1) \cup b.start .. row

LEMMA ProbeRowSees ==
    ASSUME NEW c, ProbeCase(c), NEW l, LayoutInv(c, l), NEW i \in 1 .. Len(l.branches),
           NEW row \in BranchRows(l.branches[i])
    PROVE  RaggedKeys(l, row) = ProbeKeys(l.branches[i], row)
<1> DEFINE b == l.branches[i]
           Sees(j) == IF row \in BranchRows(l.branches[j])
                      THEN 0 .. (l.branches[j].visible - 1) \cup l.branches[j].start .. row
                      ELSE {}
<1>1. b.start \in Nat /\ b.end \in Nat /\ l.original <= b.start /\ l.original \in Nat
    BY BranchesAre
<1>2. row \in Nat /\ ~(row < l.original) BY <1>1 DEF BranchRows
<1>3. \A j \in 1 .. Len(l.branches) : j # i => Sees(j) = {} BY OneBranch, Zenon
<1>4. Sees(i) = 0 .. (b.visible - 1) \cup b.start .. row BY Zenon
<1>5. RaggedKeys(l, row) = {} \cup UNION {Sees(j) : j \in 1 .. Len(l.branches)}
    BY <1>2, RowsSee, Zenon
<1> HIDE DEF Sees
<1>6. UNION {Sees(j) : j \in 1 .. Len(l.branches)} = Sees(i) BY <1>3, Zenon
<1> QED BY <1>4, <1>5, <1>6, Zenon DEF ProbeKeys

\* The ragged batch attends as the dense mask says.
LEMMA LayoutIsDense ==
    ASSUME NEW c, ProbeCase(c), NEW l, LayoutInv(c, l)
    PROVE  RaggedIsDense(l)
<1> SUFFICES ASSUME NEW row \in Rows(l) PROVE RaggedKeys(l, row) = DenseKeys(l, row)
    BY DEF RaggedIsDense
<1>1. /\ row \in Nat /\ l.original \in Nat /\ DOMAIN l.branches = 1 .. Len(l.branches)
    BY BranchesAre DEF Rows
<1>2. CASE row < l.original
  <2>1. DenseKeys(l, row) = 0 .. row BY <1>2, Zenon DEF DenseKeys
  <2> QED BY <1>1, <1>2, <2>1, RolloutRowSees, Zenon
<1>3. CASE ~(row < l.original)
  <2> DEFINE Own(b) == 0 .. (b.visible - 1) \cup {k \in BranchRows(b) : k <= row}
             mine == {b \in ToSet(l.branches) : row \in BranchRows(b)}
  <2>1. DenseKeys(l, row) = UNION {Own(b) : b \in mine} BY <1>3, Zenon DEF DenseKeys
  <2>2. ToSet(l.branches) = {l.branches[i] : i \in 1 .. Len(l.branches)} BY <1>1, Zenon DEF ToSet
  <2>3. CASE \E i \in 1 .. Len(l.branches) : row \in BranchRows(l.branches[i])
    <3>1. PICK i \in 1 .. Len(l.branches) : row \in BranchRows(l.branches[i]) BY <2>3
    <3>2. mine = {l.branches[i]}
      <4>1. l.branches[i] \in mine BY <2>2, <3>1, Zenon
      <4>2. ASSUME NEW j \in 1 .. Len(l.branches), row \in BranchRows(l.branches[j])
            PROVE  l.branches[j] = l.branches[i]
        <5>1. j = i BY <3>1, <4>2, OneBranch, Zenon
        <5> QED BY <5>1
      <4>3. \A b \in mine : b = l.branches[i] BY <2>2, <4>2, Zenon
      <4> HIDE DEF mine
      <4> QED BY <4>1, <4>3, Zenon
    <3>3. DenseKeys(l, row) = Own(l.branches[i])
      <4> HIDE DEF Own, mine
      <4>1. {Own(b) : b \in mine} = {Own(l.branches[i])} BY <3>2, Zenon
      <4>2. UNION {Own(l.branches[i])} = Own(l.branches[i]) BY Zenon
      <4> QED BY <2>1, <4>1, <4>2, Zenon
    <3>4. {k \in BranchRows(l.branches[i]) : k <= row} = l.branches[i].start .. row
      <4> DEFINE start == l.branches[i].start
                 end == l.branches[i].end
      <4>1. start \in Nat /\ end \in Nat BY BranchesAre
      <4>2. BranchRows(l.branches[i]) = start .. end - 1 BY DEF BranchRows
      <4>3. row \in start .. end - 1 BY <3>1, <4>2
      <4> HIDE DEF start, end
      <4>4. {k \in start .. end - 1 : k <= row} = start .. row BY <4>1, <4>3
      <4> QED BY <4>2, <4>4, Zenon DEF start
    <3>5. RaggedKeys(l, row) = ProbeKeys(l.branches[i], row) BY <3>1, ProbeRowSees
    <3> QED BY <3>3, <3>4, <3>5, Zenon DEF ProbeKeys
  <2>4. CASE ~\E i \in 1 .. Len(l.branches) : row \in BranchRows(l.branches[i])
    <3>1. mine = {} BY <2>2, <2>4, Zenon
    <3>2. DenseKeys(l, row) = {}
      <4> HIDE DEF Own, mine
      <4> QED BY <2>1, <3>1, Zenon
    <3>3. UNION {IF row \in BranchRows(l.branches[i])
                 THEN 0 .. (l.branches[i].visible - 1) \cup l.branches[i].start .. row
                 ELSE {} : i \in 1 .. Len(l.branches)} = {}
        BY <2>4, Zenon
    <3>4. RaggedKeys(l, row) = {} \cup {} BY <1>1, <1>3, <3>3, RowsSee, Zenon
    <3> QED BY <3>2, <3>4, Zenon
  <2> QED BY <2>3, <2>4
<1> QED BY <1>2, <1>3

\* The sequence of one probe alone.
LEMMA AloneIs ==
    ASSUME NEW c, ProbeCase(c), NEW end \in Nat, end <= c.response
    PROVE  /\ Len(IndependentSequence(c, end)) = c.prompt + end + c.probe
           /\ \A k \in 1 .. c.prompt + end + c.probe :
                 IndependentSequence(c, end)[k]
                   = IF k <= c.prompt THEN <<"prompt", k>>
                     ELSE IF k <= c.prompt + end THEN <<"response", k - c.prompt>>
                     ELSE <<"probe", k - (c.prompt + end)>>
<1> DEFINE cut == SubSeq(Response(c), 1, end)
           prefix == Prompt(c) \o cut
           alone == IndependentSequence(c, end)
           p == c.prompt
           n == c.probe
<1>1. p \in Nat /\ c.response \in Nat /\ n \in Nat BY DEF ProbeCase
<1>2. Prompt(c) \in Seq(Token) /\ Len(Prompt(c)) = p
      /\ \A k \in 1 .. p : Prompt(c)[k] = <<"prompt", k>>
    BY <1>1, TokensAre DEF Prompt
<1>3. Response(c) \in Seq(Token) /\ Len(Response(c)) = c.response
      /\ \A k \in 1 .. c.response : Response(c)[k] = <<"response", k>>
    BY <1>1, TokensAre DEF Response
<1>4. Probe(c) \in Seq(Token) /\ Len(Probe(c)) = n
      /\ \A k \in 1 .. n : Probe(c)[k] = <<"probe", k>>
    BY <1>1, TokensAre DEF Probe
<1>5. cut \in Seq(Token) /\ Len(cut) = end /\ \A k \in 1 .. end : cut[k] = <<"response", k>>
  <2>1. \A k \in 1 .. end : Response(c)[k] \in Token
    <3>1. \A k \in 1 .. end : k \in 1 .. Len(Response(c)) BY <1>1, <1>3
    <3> QED BY <1>3, <3>1, ElementOfSeq
  <2>2. /\ cut \in Seq(Token)
        /\ Len(cut) = IF 1 <= end THEN end - 1 + 1 ELSE 0
        /\ \A k \in 1 .. end - 1 + 1 : cut[k] = Response(c)[1 + k - 1]
    <3>1. 1 \in Int /\ end \in Int OBVIOUS
    <3> QED BY <1>3, <2>1, <3>1, SubSeqProperties
  <2>3. Len(cut) = end BY <2>2
  <2>4. \A k \in 1 .. end : cut[k] = <<"response", k>>
    <3> SUFFICES ASSUME NEW k \in 1 .. end PROVE cut[k] = <<"response", k>> OBVIOUS
    <3>1. k \in 1 .. c.response /\ k \in 1 .. end - 1 + 1 /\ 1 + k - 1 = k BY <1>1
    <3> QED BY <1>3, <2>2, <3>1
  <2> QED BY <2>2, <2>3, <2>4
<1>6. alone = prefix \o Probe(c) BY DEF IndependentSequence
<1> SUFFICES /\ Len(alone) = p + end + n
             /\ \A k \in 1 .. p + end + n :
                   alone[k] = IF k <= p THEN <<"prompt", k>>
                              ELSE IF k <= p + end THEN <<"response", k - p>>
                              ELSE <<"probe", k - (p + end)>>
    OBVIOUS
<1> HIDE DEF cut, p, n, alone
<1>7. /\ prefix \in Seq(Token) /\ Len(prefix) = Len(Prompt(c)) + Len(cut)
      /\ \A k \in 1 .. Len(Prompt(c)) + Len(cut) :
            prefix[k] = IF k <= Len(Prompt(c)) THEN Prompt(c)[k] ELSE cut[k - Len(Prompt(c))]
    BY <1>2, <1>5, ConcatProperties, Zenon
<1> HIDE DEF prefix
<1>8. /\ Len(alone) = Len(prefix) + Len(Probe(c))
      /\ \A k \in 1 .. Len(prefix) + Len(Probe(c)) :
            alone[k] = IF k <= Len(prefix) THEN prefix[k] ELSE Probe(c)[k - Len(prefix)]
  <2>1. prefix \in Seq(Token) /\ Probe(c) \in Seq(Token) BY <1>4, <1>7, Zenon
  <2>2. /\ Len(prefix \o Probe(c)) = Len(prefix) + Len(Probe(c))
        /\ \A k \in 1 .. Len(prefix) + Len(Probe(c)) :
              (prefix \o Probe(c))[k]
                = IF k <= Len(prefix) THEN prefix[k] ELSE Probe(c)[k - Len(prefix)]
      BY <2>1, ConcatProperties, Zenon
  <2> QED BY <1>6, <2>2, Zenon
<1>9. Len(prefix) = p + end BY <1>2, <1>5, <1>7
<1>10. Len(alone) = p + end + n BY <1>4, <1>8, <1>9
<1>11. ASSUME NEW k \in 1 .. p + end
       PROVE  prefix[k] = IF k <= p THEN <<"prompt", k>> ELSE <<"response", k - p>>
  <2>1. prefix[k] = IF k <= p THEN Prompt(c)[k] ELSE cut[k - p]
      BY <1>2, <1>5, <1>7
  <2>2. CASE k <= p
    <3>1. k \in 1 .. p BY <1>1, <2>2
    <3> QED BY <1>2, <2>1, <2>2, <3>1
  <2>3. CASE ~(k <= p)
    <3>1. k - p \in 1 .. end BY <1>1, <2>3
    <3> QED BY <1>5, <2>1, <2>3, <3>1
  <2> QED BY <2>2, <2>3
<1>12. ASSUME NEW k \in 1 .. p + end + n
       PROVE  alone[k] = IF k <= p THEN <<"prompt", k>>
                         ELSE IF k <= p + end THEN <<"response", k - p>>
                         ELSE <<"probe", k - (p + end)>>
  <2>1. alone[k] = IF k <= p + end THEN prefix[k] ELSE Probe(c)[k - (p + end)]
      BY <1>4, <1>8, <1>9
  <2>2. CASE k <= p + end
    <3>1. k \in 1 .. p + end BY <1>1, <2>2
    <3>2. k <= p => k <= p + end BY <1>1
    <3> QED BY <1>11, <2>1, <2>2, <3>1, <3>2
  <2>3. CASE ~(k <= p + end)
    <3>1. k - (p + end) \in 1 .. n /\ ~(k <= p) BY <1>1, <2>3
    <3> QED BY <1>4, <2>1, <2>3, <3>1
  <2> QED BY <2>2, <2>3
<1> QED BY <1>10, <1>12

\* The physical rows of the first k + 1 rows of a branch's own sequence.
LEMMA BranchRowsAre ==
    ASSUME NEW b, b.visible \in Nat, b.start \in Nat, NEW k \in Nat
    PROVE  {RowOf(b, j) : j \in 0 .. k}
             = IF k < b.visible THEN 0 .. k
               ELSE 0 .. (b.visible - 1) \cup b.start .. RowOf(b, k)
<1> DEFINE v == b.visible
           s == b.start
           Row(j) == IF j < v THEN j ELSE s + (j - v)
<1>1. v \in Nat /\ s \in Nat OBVIOUS
<1>2. \A j : RowOf(b, j) = Row(j) BY DEF RowOf
<1>3. {RowOf(b, j) : j \in 0 .. k} = {Row(j) : j \in 0 .. k} BY <1>2
<1> SUFFICES {Row(j) : j \in 0 .. k} = IF k < v THEN 0 .. k ELSE 0 .. (v - 1) \cup s .. Row(k)
    BY <1>2, <1>3, Zenon
<1> HIDE DEF v, s
<1>4. CASE k < v
  <2>1. \A j \in 0 .. k : Row(j) = j BY <1>1, <1>4
  <2> HIDE DEF Row
  <2>2. {Row(j) : j \in 0 .. k} = 0 .. k BY <2>1
  <2> QED BY <1>4, <2>2
<1>5. CASE ~(k < v)
  <2>1. \A j \in 0 .. k : Row(j) \in 0 .. (v - 1) \cup s .. Row(k) BY <1>1, <1>5
  <2>2. \A x \in 0 .. (v - 1) : x \in 0 .. k /\ Row(x) = x BY <1>1, <1>5
  <2>3. \A x \in s .. Row(k) : v + (x - s) \in 0 .. k /\ Row(v + (x - s)) = x BY <1>1, <1>5
  <2> HIDE DEF Row
  <2>4. {Row(j) : j \in 0 .. k} = 0 .. (v - 1) \cup s .. Row(k) BY <2>1, <2>2, <2>3
  <2> QED BY <1>5, <2>4
<1> QED BY <1>4, <1>5

\* A branch has the tokens, the positions and the attention of its own sequence.
LEMMA BranchIsAlone ==
    ASSUME NEW c, ProbeCase(c), NEW l, LayoutInv(c, l), NEW i \in 1 .. Len(l.branches)
    PROVE  SameAsAlone(c, l, i)
<1> DEFINE b == l.branches[i]
           end == BoundaryEnds(c)[i]
           alone == IndependentSequence(c, end)
           p == c.prompt
           n == c.probe
           v == b.visible
           s == b.start
<1>1. /\ BranchOK(c, l, i) /\ v \in Nat \ {0} /\ v <= l.original /\ s \in Nat
      /\ b.end = s + n /\ l.original <= s /\ l.original \in Nat
    BY BranchesAre
<1>2. p \in Nat \ {0} /\ c.response \in Nat /\ n \in Nat \ {0} /\ l.original = p + c.response
    BY DEF ProbeCase, LayoutInv
<1>3. end \in Nat /\ end <= c.response
  <2>1. i \in 1 .. Len(BoundaryEnds(c))
    <3>1. Len(l.branches) <= Len(BoundaryEnds(c)) BY DEF LayoutInv
    <3>2. Len(BoundaryEnds(c)) \in Nat BY BoundariesAre, LenProperties
    <3>3. l.branches \in Seq(BranchRecord) BY DEF LayoutInv, LayoutRecord
    <3>4. Len(l.branches) \in Nat BY <3>3, LenProperties
    <3> QED BY <3>1, <3>2, <3>4
  <2> QED BY <2>1, BoundariesAre
<1>4. /\ v = p + end
      /\ \A k \in 1 .. n : l.ids[s + k] = <<"probe", k>> /\ l.positions[s + k] = v + k - 1
    BY <1>1 DEF BranchOK
<1>5. \A k \in 1 .. l.original :
         /\ l.ids[k] = IF k <= p THEN <<"prompt", k>> ELSE <<"response", k - p>>
         /\ l.positions[k] = k - 1
    BY DEF LayoutInv
<1>6. /\ Len(alone) = p + end + n
      /\ \A k \in 1 .. p + end + n :
            alone[k] = IF k <= p THEN <<"prompt", k>>
                       ELSE IF k <= p + end THEN <<"response", k - p>>
                       ELSE <<"probe", k - (p + end)>>
    BY <1>3, AloneIs
<1>7. BranchRows(b) = s .. (s + n) - 1 BY <1>1 DEF BranchRows
<1>8. \A k : RowOf(b, k) = IF k < v THEN k ELSE s + (k - v) BY DEF RowOf
<1> SUFFICES ASSUME NEW k \in 0 .. (Len(alone) - 1)
             PROVE  /\ l.ids[RowOf(b, k) + 1] = alone[k + 1]
                    /\ l.positions[RowOf(b, k) + 1] = k
                    /\ RaggedKeys(l, RowOf(b, k)) = {RowOf(b, j) : j \in 0 .. k}
    BY DEF SameAsAlone
<1>9. {RowOf(b, j) : j \in 0 .. k}
        = IF k < v THEN 0 .. k ELSE 0 .. (v - 1) \cup s .. RowOf(b, k)
  <2>1. k \in Nat /\ v \in Nat BY <1>1
  <2> HIDE DEF b
  <2> QED BY <1>1, <2>1, BranchRowsAre, Zenon DEF v, s
<1>10. \A row \in BranchRows(b) : RaggedKeys(l, row) = 0 .. (v - 1) \cup s .. row
  <2>1. \A row \in BranchRows(b) : RaggedKeys(l, row) = ProbeKeys(b, row) BY ProbeRowSees
  <2> QED BY <2>1, Zenon DEF ProbeKeys
<1> HIDE DEF end, alone, p, n, v, s, b
<1>11. k \in 0 .. (p + end + n) - 1 BY <1>6
<1>12. CASE k < v
  <2>1. RowOf(b, k) = k BY <1>8, <1>12
  <2>2. k \in Nat /\ k < l.original /\ k + 1 \in 1 .. l.original /\ k + 1 \in 1 .. p + end + n
        /\ k + 1 <= p + end
      BY <1>1, <1>2, <1>3, <1>4, <1>11, <1>12
  <2>3. l.ids[k + 1] = alone[k + 1] BY <1>5, <1>6, <2>2
  <2>4. l.positions[k + 1] = k
    <3>1. (k + 1) - 1 = k BY <2>2
    <3> QED BY <1>5, <2>2, <3>1
  <2>5. RaggedKeys(l, k) = 0 .. k BY <2>2, RolloutRowSees, Zenon
  <2> QED BY <1>9, <1>12, <2>1, <2>3, <2>4, <2>5
<1>13. CASE ~(k < v)
  <2> DEFINE q == (k - v) + 1
  <2>1. RowOf(b, k) = s + (k - v) BY <1>8, <1>13
  <2>2. /\ q \in 1 .. n /\ (s + (k - v)) + 1 = s + q /\ v + q - 1 = k
        /\ k + 1 \in 1 .. p + end + n /\ ~(k + 1 <= p + end) /\ ~(k + 1 <= p)
        /\ (k + 1) - (p + end) = q /\ s + (k - v) \in s .. (s + n) - 1
      BY <1>1, <1>2, <1>3, <1>4, <1>11, <1>13
  <2> HIDE DEF q
  <2>3. l.ids[s + q] = <<"probe", q>> /\ l.positions[s + q] = v + q - 1 BY <1>4, <2>2
  <2>4. alone[k + 1] = <<"probe", q>> BY <1>6, <2>2
  <2>5. RaggedKeys(l, s + (k - v)) = 0 .. (v - 1) \cup s .. (s + (k - v))
      BY <1>7, <1>10, <2>2, Zenon
  <2>6. {RowOf(b, j) : j \in 0 .. k} = 0 .. (v - 1) \cup s .. (s + (k - v))
      BY <1>9, <1>13, <2>1, Zenon
  <2> QED BY <2>1, <2>2, <2>3, <2>4, <2>5, <2>6, Zenon
<1> QED BY <1>12, <1>13

\* What the worker gathers for a branch.
GatheredOf(l, i) ==
    [a \in DOMAIN l.branches[i].answers |->
        <<l.branches[i].answers[a] - 1, l.ids[l.branches[i].answers[a] + 1]>>]

\* It is what scoring the branch's sequence alone gathers.
LEMMA BranchScores ==
    ASSUME NEW c, ProbeCase(c), NEW l, LayoutInv(c, l), NEW i \in 1 .. Len(l.branches)
    PROVE  /\ GatheredOf(l, i) = ScoredAlone(c, l, i)
           /\ ScoredAlone(c, l, i) \in Seq(Nat \X Token)
           /\ Len(ScoredAlone(c, l, i)) = Len(c.answers)
           /\ Len(l.branches[i].answers) = Len(c.answers)
<1> DEFINE b == l.branches[i]
           end == BoundaryEnds(c)[i]
           alone == IndependentSequence(c, end)
           p == c.prompt
           n == c.probe
           v == b.visible
           s == b.start
           w == Len(c.answers)
           placed(a) == <<(s + c.answers[a]) - 1, <<"probe", c.answers[a] + 1>>>>
<1>1. BranchOK(c, l, i) /\ s \in Nat /\ b.end = s + n
  <2> HIDE DEF b
  <2>1. \A j \in 1 .. Len(l.branches) :
           /\ BranchOK(c, l, j) /\ l.branches[j].start \in Nat
           /\ l.branches[j].end = l.branches[j].start + c.probe
      BY BranchesAre
  <2> QED BY <2>1, Zenon DEF b
<1>2. p \in Nat \ {0} /\ c.response \in Nat /\ n \in Nat \ {0} /\ c.answers \in Seq(Nat)
  <2> HIDE DEF p, n, b, end, alone, v, s, w, placed
  <2>1. /\ c.prompt \in Nat \ {0} /\ c.response \in Nat /\ c.probe \in Nat \ {0}
        /\ c.answers \in Seq(Nat)
      BY DEF ProbeCase
  <2> QED BY <2>1 DEF p, n
<1>3. end \in Nat /\ end <= c.response
  <2>1. i \in 1 .. Len(BoundaryEnds(c))
    <3>1. Len(l.branches) <= Len(BoundaryEnds(c)) BY DEF LayoutInv
    <3>2. Len(BoundaryEnds(c)) \in Nat BY BoundariesAre, LenProperties
    <3>3. l.branches \in Seq(BranchRecord) BY DEF LayoutInv, LayoutRecord
    <3>4. Len(l.branches) \in Nat BY <3>3, LenProperties
    <3> QED BY <3>1, <3>2, <3>4
  <2> QED BY <2>1, BoundariesAre
<1>4. /\ v = p + end /\ b.answers = [a \in DOMAIN c.answers |-> s + c.answers[a]]
      /\ \A k \in 1 .. n : l.ids[s + k] = <<"probe", k>>
    BY <1>1 DEF BranchOK
<1>5. \A k \in 1 .. p + end + n :
            alone[k] = IF k <= p THEN <<"prompt", k>>
                       ELSE IF k <= p + end THEN <<"response", k - p>>
                       ELSE <<"probe", k - (p + end)>>
    BY <1>3, AloneIs
<1>6. DOMAIN c.answers = 1 .. w /\ w \in Nat BY <1>2, LenProperties
<1>7. \A a \in 1 .. w : c.answers[a] \in 1 .. n - 1 BY <1>6 DEF ProbeCase
<1>8. GatheredOf(l, i) = [a \in 1 .. w |-> placed(a)]
  <2>1. GatheredOf(l, i) = [a \in DOMAIN b.answers |->
                              <<b.answers[a] - 1, l.ids[b.answers[a] + 1]>>]
      BY Zenon DEF GatheredOf
  <2> HIDE DEF b, s, n, w
  <2>2. DOMAIN b.answers = 1 .. w /\ \A a \in 1 .. w : b.answers[a] = s + c.answers[a]
      BY <1>4, <1>6
  <2>3. ASSUME NEW a \in 1 .. w
        PROVE  <<b.answers[a] - 1, l.ids[b.answers[a] + 1]>> = placed(a)
    <3>1. /\ c.answers[a] + 1 \in 1 .. n
          /\ (s + c.answers[a]) + 1 = s + (c.answers[a] + 1)
      <4> DEFINE x == c.answers[a]
      <4>1. x \in 1 .. n - 1 BY <1>7
      <4>2. s \in Nat /\ n \in Nat BY <1>1, <1>2
      <4> HIDE DEF x
      <4>3. x + 1 \in 1 .. n /\ (s + x) + 1 = s + (x + 1) BY <4>1, <4>2
      <4> QED BY <4>3 DEF x
    <3>2. l.ids[s + (c.answers[a] + 1)] = <<"probe", c.answers[a] + 1>> BY <1>4, <3>1
    <3> QED BY <2>2, <3>1, <3>2
  <2> HIDE DEF placed
  <2> QED BY <2>1, <2>2, <2>3, Zenon
<1>9. ScoredAlone(c, l, i) = [a \in 1 .. w |-> placed(a)]
  <2> DEFINE at(a) == p + end + c.answers[a]
             scored(a) == <<RowOf(b, at(a) - 1), alone[at(a) + 1]>>
  <2>1. ScoredAlone(c, l, i) = [a \in 1 .. w |-> scored(a)]
    <3>1. IndependentAnswers(c, end) = [a \in 1 .. w |-> at(a)]
        BY <1>6, Zenon DEF IndependentAnswers
    <3>2. \A a \in 1 .. w : IndependentAnswers(c, end)[a] = at(a) BY <3>1, Zenon
    <3>3. ScoredAlone(c, l, i)
            = [a \in 1 .. w |-> <<RowOf(b, IndependentAnswers(c, end)[a] - 1),
                                  alone[IndependentAnswers(c, end)[a] + 1]>>]
        BY <1>6, Zenon DEF ScoredAlone
    <3> HIDE DEF at, alone, w, b, end
    <3> QED BY <3>2, <3>3, Zenon
  <2> HIDE DEF b, s, n, w, end, alone, p, v
  <2>2. ASSUME NEW a \in 1 .. w PROVE scored(a) = placed(a)
    <3> DEFINE x == c.answers[a]
    <3>1. x \in 1 .. n - 1 BY <1>7
    <3>2. v = p + end BY <1>4
    <3> HIDE DEF x
    <3>3. /\ at(a) + 1 \in 1 .. p + end + n /\ ~(at(a) + 1 <= p) /\ ~(at(a) + 1 <= p + end)
          /\ (at(a) + 1) - (p + end) = x + 1
          /\ ~(at(a) - 1 < v) /\ s + ((at(a) - 1) - v) = (s + x) - 1
      <4>1. at(a) = p + end + x BY DEF x
      <4> HIDE DEF at
      <4> QED BY <1>1, <1>2, <1>3, <3>1, <3>2, <4>1
    <3> HIDE DEF at
    <3>4. alone[at(a) + 1] = <<"probe", x + 1>> BY <1>5, <3>3
    <3>5. RowOf(b, at(a) - 1) = (s + x) - 1 BY <3>3 DEF RowOf, v, s
    <3>6. scored(a) = <<(s + x) - 1, <<"probe", x + 1>>>> BY <3>4, <3>5
    <3> QED BY <3>6 DEF x
  <2> HIDE DEF scored, placed
  <2> QED BY <2>1, <2>2, Zenon
<1>10. [a \in 1 .. w |-> placed(a)] \in Seq(Nat \X Token)
       /\ Len([a \in 1 .. w |-> placed(a)]) = w
  <2> HIDE DEF s, n, w
  <2>1. \A a \in 1 .. w : placed(a) \in Nat \X Token
    <3> SUFFICES ASSUME NEW a \in 1 .. w PROVE placed(a) \in Nat \X Token OBVIOUS
    <3> DEFINE x == c.answers[a]
    <3>1. x \in 1 .. n - 1 BY <1>7
    <3> HIDE DEF x
    <3>2. (s + x) - 1 \in Nat /\ x + 1 \in Nat BY <1>1, <1>2, <3>1
    <3>3. <<(s + x) - 1, <<"probe", x + 1>>>> \in Nat \X Token BY <3>2 DEF Token
    <3> QED BY <3>3 DEF x
  <2> HIDE DEF placed
  <2> QED BY <1>6, <2>1
<1>11. Len(b.answers) = w
  <2> HIDE DEF b, s, w
  <2> QED BY <1>4, <1>6
<1> QED BY <1>8, <1>9, <1>10, <1>11, Zenon

-----------------------------------------------------------------------------
(* The worker's scores                                                     *)

Predictor == Nat \X Token
ScoresRecord ==
    [predictors : Seq(Predictor), widths : Seq(Nat), offset : Nat, values : Seq(Seq(Predictor))]

\* Where the predictors of the first i branches end.
Cut(c, i) == i * Len(c.answers)

\* The branches' predictors follow one another, and what is cut is what each
\* branch has alone.
ScoresInv(c, l, s) ==
    /\ s \in ScoresRecord
    /\ ~LaidOut(c, l) => s = StartScores
    /\ Len(s.widths) <= Len(l.branches) /\ Len(s.values) <= Len(s.widths)
    /\ s.offset = Cut(c, Len(s.values))
    /\ Len(s.predictors) = Cut(c, Len(s.widths))
    /\ \A i \in 1 .. Len(s.widths) :
          /\ s.widths[i] = Len(c.answers)
          /\ \A a \in 1 .. Len(c.answers) :
                s.predictors[Cut(c, i - 1) + a] = ScoredAlone(c, l, i)[a]
    /\ \A i \in 1 .. Len(s.values) : s.values[i] = ScoredAlone(c, l, i)

LEMMA CutsAre ==
    ASSUME NEW c, ProbeCase(c)
    PROVE  /\ Len(c.answers) \in Nat
           /\ Cut(c, 0) = 0
           /\ \A i \in Nat : Cut(c, i) \in Nat /\ Cut(c, i + 1) = Cut(c, i) + Len(c.answers)
           /\ \A i, j \in Nat : i <= j => Cut(c, i) <= Cut(c, j)
<1> DEFINE w == Len(c.answers)
<1>1. w \in Nat
  <2>1. c.answers \in Seq(Nat) BY DEF ProbeCase
  <2> QED BY <2>1, LenProperties
<1>2. \A i : Cut(c, i) = i * w BY DEF Cut
<1> HIDE DEF w
<1>3. ASSUME NEW i \in Nat PROVE i * w \in Nat /\ (i + 1) * w = i * w + w BY <1>1
<1>4. ASSUME NEW i \in Nat, NEW j \in Nat, i <= j PROVE i * w <= j * w
  <2>1. PICK d \in Nat : j = i + d
    <3>1. j - i \in Nat /\ j = i + (j - i) BY <1>4
    <3> QED BY <3>1
  <2>2. d * w \in Nat /\ i * w \in Nat BY <1>1
  <2>3. (i + d) * w = i * w + d * w BY <1>1
  <2> QED BY <2>1, <2>2, <2>3
<1>5. 0 * w = 0 BY <1>1
<1> QED BY <1>1, <1>2, <1>3, <1>4, <1>5 DEF w

LEMMA StartIsScores ==
    ASSUME NEW c, ProbeCase(c), NEW l, LayoutInv(c, l)
    PROVE  ScoresInv(c, l, StartScores)
<1> DEFINE s == StartScores
<1>1. s \in ScoresRecord /\ s.predictors = <<>> /\ s.widths = <<>> /\ s.offset = 0 /\ s.values = <<>>
    BY DEF StartScores, ScoresRecord
<1> HIDE DEF s
<1>2. Len(s.predictors) = 0 /\ Len(s.widths) = 0 /\ Len(s.values) = 0 BY <1>1
<1>3. Cut(c, 0) = 0 BY CutsAre
<1>4. Len(l.branches) \in Nat BY BranchesAre
<1>5. 1 .. 0 = {} OBVIOUS
<1>6. Len(s.widths) <= Len(l.branches) /\ Len(s.values) <= Len(s.widths) BY <1>2, <1>4
<1>7. s = StartScores BY DEF s
<1> QED BY <1>1, <1>2, <1>3, <1>5, <1>6, <1>7, Zenon DEF ScoresInv

\* A part of a sequence that is another sequence.
LEMMA SubSeqIs ==
    ASSUME NEW S, NEW s \in Seq(S), NEW t \in Seq(S), NEW from \in Nat,
           from + Len(t) <= Len(s), \A k \in 1 .. Len(t) : s[from + k] = t[k]
    PROVE  SubSeq(s, from + 1, from + Len(t)) = t
<1> DEFINE u == SubSeq(s, from + 1, from + Len(t))
           n == Len(t)
<1>1. Len(s) \in Nat /\ n \in Nat BY LenProperties
<1>2. \A k \in from + 1 .. from + n : s[k] \in S
  <2>1. \A k \in from + 1 .. from + n : k \in 1 .. Len(s) BY <1>1
  <2> QED BY <2>1, ElementOfSeq
<1>3. from + 1 \in Int /\ from + n \in Int BY <1>1
<1>4. /\ u \in Seq(S)
      /\ Len(u) = IF from + 1 <= from + n THEN (from + n) - (from + 1) + 1 ELSE 0
      /\ \A k \in 1 .. (from + n) - (from + 1) + 1 : u[k] = s[(from + 1) + k - 1]
  <2> HIDE DEF n
  <2> QED BY <1>2, <1>3, SubSeqProperties DEF n
<1> HIDE DEF u, n
<1>5. Len(u) = n BY <1>1, <1>4
<1>6. ASSUME NEW k \in 1 .. Len(u) PROVE u[k] = t[k]
  <2>1. k \in 1 .. n /\ k \in 1 .. (from + n) - (from + 1) + 1 /\ (from + 1) + k - 1 = from + k
      BY <1>1, <1>5
  <2>2. u[k] = s[from + k] BY <1>4, <2>1
  <2>3. s[from + k] = t[k] BY <2>1 DEF n
  <2> QED BY <2>2, <2>3
<1>7. u = t
  <2>1. Len(u) = Len(t) BY <1>5 DEF n
  <2> QED BY <1>4, <1>6, <2>1, SeqEqual
<1> QED BY <1>7 DEF u, n

LEMMA GatherKeepsScores ==
    ASSUME NEW c, ProbeCase(c), NEW l, LayoutInv(c, l), LaidOut(c, l),
           NEW s, ScoresInv(c, l, s), ~Gathered(l, s)
    PROVE  ScoresInv(c, l, GatherBranch(l, s))
<1> DEFINE m == GatherBranch(l, s)
           n == Len(s.widths)
           w == Len(c.answers)
           g == ScoredAlone(c, l, n + 1)
           at == Len(s.predictors)
<1>1. /\ s.predictors \in Seq(Predictor) /\ s.widths \in Seq(Nat) /\ s.offset \in Nat
      /\ s.values \in Seq(Seq(Predictor))
    BY DEF ScoresInv, ScoresRecord
<1>2. n \in Nat /\ Len(s.values) \in Nat /\ at \in Nat BY <1>1, LenProperties
<1>3. n + 1 \in 1 .. Len(l.branches)
  <2>1. n <= Len(l.branches) /\ n # Len(l.branches) BY DEF ScoresInv, Gathered
  <2>2. Len(l.branches) \in Nat BY BranchesAre
  <2> QED BY <1>2, <2>1, <2>2
<1>4. /\ GatheredOf(l, n + 1) = g /\ g \in Seq(Predictor) /\ Len(g) = w
      /\ Len(l.branches[n + 1].answers) = w
    BY <1>3, BranchScores DEF Predictor
<1>5. w \in Nat BY CutsAre
<1>6. \A i \in Nat : Cut(c, i) \in Nat /\ Cut(c, i + 1) = Cut(c, i) + w BY CutsAre
<1>7. \A i, j \in Nat : i <= j => Cut(c, i) <= Cut(c, j) BY CutsAre
<1>8. at = Cut(c, n) BY DEF ScoresInv
<1>9. /\ m.predictors = s.predictors \o g /\ m.widths = Append(s.widths, w)
      /\ m.offset = s.offset /\ m.values = s.values
  <2>1. m = [predictors |-> s.predictors \o GatheredOf(l, n + 1),
             widths     |-> Append(s.widths, Len(l.branches[n + 1].answers)),
             offset     |-> s.offset,
             values     |-> s.values]
      BY Zenon DEF GatherBranch, GatheredOf
  <2> HIDE DEF m, g, w, n
  <2> QED BY <1>4, <2>1
<1>10. m \in ScoresRecord
  <2>1. m.predictors \in Seq(Predictor) /\ m.widths \in Seq(Nat)
    <3> HIDE DEF m, g, w
    <3>1. s.predictors \o g \in Seq(Predictor) BY <1>1, <1>4, ConcatProperties, Zenon
    <3>2. Append(s.widths, w) \in Seq(Nat) BY <1>1, <1>5, AppendProperties, Zenon
    <3> QED BY <1>9, <3>1, <3>2, Zenon
  <2>2. m = [predictors |-> m.predictors, widths |-> m.widths, offset |-> m.offset,
             values |-> m.values]
      BY DEF GatherBranch
  <2> HIDE DEF m
  <2> QED BY <1>1, <1>9, <2>1, <2>2 DEF ScoresRecord
<1> HIDE DEF m, n, w, g, at
<1>11. /\ Len(m.widths) = n + 1 /\ m.widths[n + 1] = w
      /\ \A i \in 1 .. n : m.widths[i] = s.widths[i]
  <2>1. s.widths \in Seq(Nat) /\ w \in Nat BY <1>1, <1>5
  <2>2. Len(Append(s.widths, w)) = Len(s.widths) + 1
        /\ Append(s.widths, w)[Len(s.widths) + 1] = w
      BY <2>1, AppendProperties
  <2>3. \A i \in 1 .. Len(s.widths) : Append(s.widths, w)[i] = s.widths[i]
      BY <2>1, AppendProperties
  <2> QED BY <1>9, <2>2, <2>3, Zenon DEF n
<1>12. /\ Len(m.predictors) = at + w
       /\ \A k \in 1 .. at : m.predictors[k] = s.predictors[k]
       /\ \A a \in 1 .. w : m.predictors[at + a] = g[a]
  <2>1. Len(s.predictors \o g) = Len(s.predictors) + Len(g)
        /\ \A k \in 1 .. Len(s.predictors) + Len(g) :
              (s.predictors \o g)[k] = IF k <= Len(s.predictors) THEN s.predictors[k]
                                       ELSE g[k - Len(s.predictors)]
    <3>1. s.predictors \in Seq(Predictor) /\ g \in Seq(Predictor) BY <1>1, <1>4, Zenon
    <3> QED BY <3>1, ConcatProperties, Zenon
  <2>2. Len(m.predictors) = at + w /\ \A k \in 1 .. at + w :
           m.predictors[k] = IF k <= at THEN s.predictors[k] ELSE g[k - at]
      BY <1>4, <1>9, <2>1 DEF at
  <2>3. \A k \in 1 .. at : k \in 1 .. at + w /\ k <= at BY <1>2, <1>5
  <2>4. \A a \in 1 .. w : at + a \in 1 .. at + w /\ ~(at + a <= at) /\ (at + a) - at = a
      BY <1>2, <1>5
  <2> QED BY <2>2, <2>3, <2>4
<1>13. Len(m.predictors) = Cut(c, Len(m.widths)) BY <1>2, <1>6, <1>8, <1>11, <1>12
<1>14. ASSUME NEW i \in 1 .. Len(m.widths)
       PROVE  /\ m.widths[i] = Len(c.answers)
              /\ \A a \in 1 .. Len(c.answers) :
                    m.predictors[Cut(c, i - 1) + a] = ScoredAlone(c, l, i)[a]
  <2>1. CASE i = n + 1
    <3>1. i - 1 = n BY <1>2, <2>1
    <3> QED BY <1>8, <1>11, <1>12, <2>1, <3>1 DEF w, g
  <2>2. CASE i \in 1 .. n
    <3>1. /\ s.widths[i] = w
          /\ \A a \in 1 .. w : s.predictors[Cut(c, i - 1) + a] = ScoredAlone(c, l, i)[a]
        BY <2>2 DEF ScoresInv, n, w
    <3>2. Cut(c, i - 1) \in Nat /\ Cut(c, i - 1) + w <= at
      <4>1. i - 1 \in Nat /\ i \in Nat /\ i <= n /\ (i - 1) + 1 = i BY <1>2, <2>2
      <4>2. Cut(c, i - 1) \in Nat /\ Cut(c, i) = Cut(c, i - 1) + w BY <1>6, <4>1
      <4>3. Cut(c, i) <= Cut(c, n) BY <1>2, <1>7, <4>1
      <4> QED BY <1>8, <4>2, <4>3
    <3>3. \A a \in 1 .. w : Cut(c, i - 1) + a \in 1 .. at BY <1>2, <1>5, <3>2
    <3>4. \A a \in 1 .. w : m.predictors[Cut(c, i - 1) + a] = ScoredAlone(c, l, i)[a]
        BY <1>12, <3>1, <3>3
    <3> QED BY <1>11, <2>2, <3>1, <3>4 DEF w
  <2> QED BY <1>2, <1>11, <2>1, <2>2
<1>15. Len(m.widths) <= Len(l.branches) BY <1>3, <1>11
<1>16. Len(m.values) <= Len(m.widths) /\ m.offset = Cut(c, Len(m.values))
       /\ \A i \in 1 .. Len(m.values) : m.values[i] = ScoredAlone(c, l, i)
  <2>1. /\ Len(s.values) <= n /\ s.offset = Cut(c, Len(s.values))
        /\ \A i \in 1 .. Len(s.values) : s.values[i] = ScoredAlone(c, l, i)
      BY DEF ScoresInv, n
  <2>2. m.offset = s.offset /\ m.values = s.values /\ Len(m.widths) = n + 1 BY <1>9, <1>11
  <2>3. Len(s.values) <= n + 1 BY <1>2, <2>1
  <2> QED BY <2>1, <2>2, <2>3
<1>17. ScoresInv(c, l, m) BY <1>10, <1>13, <1>14, <1>15, <1>16, Zenon DEF ScoresInv
<1> QED BY <1>17 DEF m

LEMMA CutKeepsScores ==
    ASSUME NEW c, ProbeCase(c), NEW l, LayoutInv(c, l), LaidOut(c, l),
           NEW s, ScoresInv(c, l, s), Len(s.values) < Len(s.widths)
    PROVE  ScoresInv(c, l, CutBranch(s))
<1> DEFINE m == CutBranch(s)
           n == Len(s.values)
           w == Len(c.answers)
           g == ScoredAlone(c, l, n + 1)
<1>1. /\ s.predictors \in Seq(Predictor) /\ s.widths \in Seq(Nat) /\ s.offset \in Nat
      /\ s.values \in Seq(Seq(Predictor))
    BY DEF ScoresInv, ScoresRecord
<1>2. n \in Nat /\ Len(s.widths) \in Nat /\ Len(s.predictors) \in Nat BY <1>1, LenProperties
<1>3. n + 1 \in 1 .. Len(s.widths) BY <1>2
<1>4. n + 1 \in 1 .. Len(l.branches)
  <2>1. Len(s.widths) <= Len(l.branches) BY DEF ScoresInv
  <2>2. Len(l.branches) \in Nat BY BranchesAre
  <2> QED BY <1>2, <1>3, <2>1, <2>2
<1>5. g \in Seq(Predictor) /\ Len(g) = w BY <1>4, BranchScores DEF Predictor
<1>6. w \in Nat BY CutsAre
<1>7. \A i \in Nat : Cut(c, i) \in Nat /\ Cut(c, i + 1) = Cut(c, i) + w BY CutsAre
<1>8. \A i, j \in Nat : i <= j => Cut(c, i) <= Cut(c, j) BY CutsAre
<1>9. /\ s.offset = Cut(c, n) /\ Len(s.predictors) = Cut(c, Len(s.widths))
      /\ s.widths[n + 1] = w
      /\ \A a \in 1 .. w : s.predictors[Cut(c, (n + 1) - 1) + a] = g[a]
    BY <1>3 DEF ScoresInv
<1>10. SubSeq(s.predictors, s.offset + 1, s.offset + w) = g
  <2>1. (n + 1) - 1 = n BY <1>2
  <2>2. \A a \in 1 .. w : s.predictors[s.offset + a] = g[a] BY <1>9, <2>1
  <2>3. s.offset + w <= Len(s.predictors)
    <3>1. Cut(c, n + 1) = s.offset + w BY <1>2, <1>7, <1>9
    <3>2. Cut(c, n + 1) <= Cut(c, Len(s.widths))
      <4>1. n + 1 \in Nat /\ n + 1 <= Len(s.widths) BY <1>2, <1>3
      <4> HIDE DEF n
      <4> QED BY <1>2, <1>8, <4>1
    <3> QED BY <1>9, <3>1, <3>2
  <2> HIDE DEF g, w
  <2>4. SubSeq(s.predictors, s.offset + 1, s.offset + Len(g)) = g
      BY <1>1, <1>5, <2>2, <2>3, SubSeqIs, Zenon
  <2> QED BY <1>5, <2>4
<1>11. m = [predictors |-> s.predictors, widths |-> s.widths, offset |-> s.offset + w,
           values |-> Append(s.values, g)]
  <2>1. m = [predictors |-> s.predictors,
             widths     |-> s.widths,
             offset     |-> s.offset + s.widths[n + 1],
             values     |-> Append(s.values, SubSeq(s.predictors, s.offset + 1,
                                                    s.offset + s.widths[n + 1]))]
      BY Zenon DEF CutBranch
  <2> HIDE DEF m, g, w, n
  <2> QED BY <1>9, <1>10, <2>1, Zenon
<1> HIDE DEF m, n, w, g
<1>12. /\ Append(s.values, g) \in Seq(Seq(Predictor)) /\ Len(Append(s.values, g)) = n + 1
       /\ \A i \in 1 .. n : Append(s.values, g)[i] = s.values[i]
       /\ Append(s.values, g)[n + 1] = g
    BY <1>1, <1>5, AppendProperties DEF n
<1>13. /\ m.predictors = s.predictors /\ m.widths = s.widths /\ m.offset = s.offset + w
       /\ m.values = Append(s.values, g)
    BY <1>11
<1>14. m \in ScoresRecord
  <2>1. s.offset + w \in Nat BY <1>1, <1>6
  <2> QED BY <1>1, <1>11, <1>12, <2>1 DEF ScoresRecord
<1>15. /\ Len(m.values) = n + 1 /\ Len(m.values) <= Len(m.widths)
       /\ m.offset = Cut(c, Len(m.values))
  <2>1. Cut(c, n + 1) = s.offset + w BY <1>2, <1>7, <1>9
  <2>2. n + 1 <= Len(s.widths) BY <1>2, <1>3
  <2> QED BY <1>12, <1>13, <2>1, <2>2
<1>16. ASSUME NEW i \in 1 .. Len(m.values) PROVE m.values[i] = ScoredAlone(c, l, i)
  <2>1. CASE i = n + 1 BY <1>12, <1>13, <2>1 DEF g
  <2>2. CASE i \in 1 .. n
    <3>1. s.values[i] = ScoredAlone(c, l, i) BY <2>2 DEF ScoresInv, n
    <3> QED BY <1>12, <1>13, <2>2, <3>1
  <2> QED BY <1>2, <1>15, <2>1, <2>2
<1>17. /\ Len(s.widths) <= Len(l.branches) /\ Len(s.predictors) = Cut(c, Len(s.widths))
       /\ \A i \in 1 .. Len(s.widths) :
             /\ s.widths[i] = Len(c.answers)
             /\ \A a \in 1 .. Len(c.answers) :
                   s.predictors[Cut(c, i - 1) + a] = ScoredAlone(c, l, i)[a]
    BY DEF ScoresInv
<1>18. ScoresInv(c, l, m)
    BY <1>13, <1>14, <1>15, <1>16, <1>17, Zenon DEF ScoresInv
<1> QED BY <1>18 DEF m

\* What the packed forward has so far is what the probes have alone.
LEMMA PackedIsAlone ==
    ASSUME NEW c, ProbeCase(c), NEW l, LayoutInv(c, l), NEW s, ScoresInv(c, l, s)
    PROVE  /\ LaidOut(c, l) => Accepts(l)
           /\ \A i \in DOMAIN l.branches : SameAsAlone(c, l, i)
           /\ RaggedIsDense(l)
           /\ \A i \in DOMAIN s.values : s.values[i] = ScoredAlone(c, l, i)
<1>1. LaidOut(c, l) => Accepts(l) BY LayoutIsAccepted
<1>2. \A i \in DOMAIN l.branches : SameAsAlone(c, l, i) BY BranchesAre, BranchIsAlone, Zenon
<1>3. RaggedIsDense(l) BY LayoutIsDense
<1>4. \A i \in DOMAIN s.values : s.values[i] = ScoredAlone(c, l, i)
  <2>1. s.values \in Seq(Seq(Predictor)) BY DEF ScoresInv, ScoresRecord
  <2>2. DOMAIN s.values = 1 .. Len(s.values) BY <2>1, LenProperties
  <2> QED BY <2>2 DEF ScoresInv
<1> QED BY <1>1, <1>2, <1>3, <1>4

-----------------------------------------------------------------------------
(* The teacher's scores on their way to the loss                           *)

Score == Nat \X Nat
SampleRecord == [teacher : Nat \ {0}, student : Nat \ {0}, response : Nat \ {0}]
BatchRecord ==
    [padded : Seq(Score), jagged : Seq(Score), inputs : Seq(Score), offsets : Seq(Nat)]
RowsRecord == [padded : Seq(Score), jagged : Seq(Score), student : Seq(Score)]

\* What the rollout has ensured of a batch.
BatchCase(c) ==
    /\ c \in [promptWidth : Nat, responseWidth : Nat, samples : Seq(SampleRecord)]
    /\ \A s \in DOMAIN c.samples :
          c.samples[s].student <= c.promptWidth /\ c.samples[s].response <= c.responseWidth

LEMMA BatchCasesAre == \A c \in BatchCases : BatchCase(c)
BY BatchAssumption DEF BatchCase, SampleRecord

\* Where the flat values of the batch end.
BatchEnd(b) == IF b.offsets = <<>> THEN 0 ELSE b.offsets[Len(b.offsets)]

\* Both ways the teacher's values are the same, and the response of a packed
\* sample lies before its offset, its inputs one further than its scores.
BatchInv(c, b) ==
    /\ b \in BatchRecord
    /\ b.padded = b.jagged
    /\ Len(b.offsets) <= Len(c.samples)
    /\ Len(b.jagged) = BatchEnd(b) /\ Len(b.inputs) = BatchEnd(b)
    /\ \A s \in 1 .. Len(b.offsets) :
          LET o == b.offsets[s]
              r == c.samples[s].response
          IN /\ r < o /\ o <= BatchEnd(b)
             /\ \A t \in 1 .. r : /\ b.jagged[((o - r) - 1) + t] = <<s, t>>
                                  /\ b.inputs[(o - r) + t] = <<s, t>>

RowsInv(c, rows) ==
    /\ rows \in Seq(RowsRecord)
    /\ \A s \in 1 .. Len(rows) : Align!PairsSameTokens(c, s, rows[s])

\* The middle of three sequences.
LEMMA Between ==
    ASSUME NEW S, NEW a \in Seq(S), NEW b \in Seq(S), NEW z \in Seq(S)
    PROVE  /\ a \o b \o z \in Seq(S)
           /\ Len(a \o b \o z) = Len(a) + Len(b) + Len(z)
           /\ \A k \in 1 .. Len(b) : (a \o b \o z)[Len(a) + k] = b[k]
           /\ SubSeq(a \o b \o z, Len(a) + 1, Len(a) + Len(b)) = b
<1> DEFINE p == a \o b
           u == p \o z
<1>1. Len(a) \in Nat /\ Len(b) \in Nat /\ Len(z) \in Nat BY LenProperties
<1>2. /\ p \in Seq(S) /\ Len(p) = Len(a) + Len(b)
      /\ \A k \in 1 .. Len(a) + Len(b) : p[k] = IF k <= Len(a) THEN a[k] ELSE b[k - Len(a)]
    BY ConcatProperties, Zenon
<1> HIDE DEF p
<1>3. /\ u \in Seq(S) /\ Len(u) = Len(p) + Len(z)
      /\ \A k \in 1 .. Len(p) + Len(z) : u[k] = IF k <= Len(p) THEN p[k] ELSE z[k - Len(p)]
  <2>1. p \in Seq(S) BY <1>2, Zenon
  <2>2. p \o z \in Seq(S) BY <2>1, ConcatProperties, Zenon
  <2>3. Len(p \o z) = Len(p) + Len(z) BY <2>1, ConcatProperties, Zenon
  <2>4. \A k \in 1 .. Len(p) + Len(z) : (p \o z)[k] = IF k <= Len(p) THEN p[k] ELSE z[k - Len(p)]
      BY <2>1, ConcatProperties, Zenon
  <2> QED BY <2>2, <2>3, <2>4, Zenon
<1> HIDE DEF u
<1>4. Len(u) = Len(a) + Len(b) + Len(z) BY <1>2, <1>3
<1>5. ASSUME NEW k \in 1 .. Len(b) PROVE u[Len(a) + k] = b[k]
  <2>1. /\ Len(a) + k \in 1 .. Len(a) + Len(b) /\ ~(Len(a) + k <= Len(a))
        /\ (Len(a) + k) - Len(a) = k /\ Len(a) + k <= Len(a) + Len(b)
        /\ Len(a) + k \in 1 .. (Len(a) + Len(b)) + Len(z)
      BY <1>1
  <2>2. p[Len(a) + k] = b[k] BY <1>2, <2>1
  <2>3. u[Len(a) + k] = p[Len(a) + k] BY <1>2, <1>3, <2>1
  <2> QED BY <2>2, <2>3
<1>6. Len(a) + Len(b) <= Len(u) BY <1>1, <1>4
<1>7. SubSeq(u, Len(a) + 1, Len(a) + Len(b)) = b
    BY <1>1, <1>3, <1>5, <1>6, SubSeqIs, Zenon
<1> QED BY <1>3, <1>4, <1>5, <1>7 DEF u, p

LEMMA MiddleIs ==
    \A a, b, z \in Seq(Score) : SubSeq(a \o b \o z, Len(a) + 1, Len(a) + Len(b)) = b
BY Between

LEMMA FillIs ==
    ASSUME NEW n \in Nat, NEW x \in Score
    PROVE  Align!Fill(n, x) \in Seq(Score) /\ Len(Align!Fill(n, x)) = n
BY DEF Align!Fill

LEMMA ZeroIsScore == Align!Zero \in Score /\ <<Align!Zero>> \in Seq(Score) /\ Len(<<Align!Zero>>) = 1
<1>1. Align!Zero \in Score BY DEF Align!Zero, Score
<1> QED BY <1>1

LEMMA SampleIs ==
    ASSUME NEW c, BatchCase(c), NEW s \in 1 .. Len(c.samples)
    PROVE  /\ c.samples[s].teacher \in Nat \ {0}
           /\ c.samples[s].student \in Nat \ {0}
           /\ c.samples[s].response \in Nat \ {0}
           /\ c.promptWidth \in Nat /\ c.samples[s].student <= c.promptWidth
           /\ c.responseWidth \in Nat /\ c.samples[s].response <= c.responseWidth
           /\ s \in Nat
<1>1. c.samples \in Seq(SampleRecord) /\ c.promptWidth \in Nat /\ c.responseWidth \in Nat
    BY DEF BatchCase
<1>2. c.samples[s] \in SampleRecord BY <1>1, ElementOfSeq
<1>3. s \in DOMAIN c.samples BY <1>1, LenProperties
<1>4. c.samples[s].student <= c.promptWidth /\ c.samples[s].response <= c.responseWidth
    BY <1>3 DEF BatchCase
<1>5. s \in Nat BY <1>1, LenProperties
<1> QED BY <1>1, <1>2, <1>4, <1>5 DEF SampleRecord

LEMMA ScoreTokensAre ==
    ASSUME NEW c, NEW s \in Nat, c.samples[s].response \in Nat
    PROVE  /\ Align!Tokens(c, s) \in Seq(Score)
           /\ Len(Align!Tokens(c, s)) = c.samples[s].response
           /\ \A t \in 1 .. c.samples[s].response : Align!Tokens(c, s)[t] = <<s, t>>
<1> DEFINE r == c.samples[s].response
<1>1. Align!Tokens(c, s) = [t \in 1 .. r |-> <<s, t>>] BY DEF Align!Tokens
<1>2. r \in Nat OBVIOUS
<1> HIDE DEF r
<1>3. \A t \in 1 .. r : <<s, t>> \in Score BY <1>2 DEF Score
<1>4. /\ [t \in 1 .. r |-> <<s, t>>] \in Seq(Score) /\ Len([t \in 1 .. r |-> <<s, t>>]) = r
      /\ \A t \in 1 .. r : [q \in 1 .. r |-> <<s, q>>][t] = <<s, t>>
    BY <1>2, <1>3
<1> QED BY <1>1, <1>4 DEF r

\* The teacher's rows, as the student's sequence has them.
LEMMA AlignedIs ==
    ASSUME NEW c, BatchCase(c), NEW s \in 1 .. Len(c.samples)
    PROVE  LET r == c.samples[s].response
               q == c.samples[s].student
           IN /\ Align!Aligned(c, s) \in Seq(Score)
              /\ Len(Align!Aligned(c, s)) = q + r
              /\ \A t \in 1 .. r : Align!Aligned(c, s)[(q - 1) + t] = <<s, t>>
<1> DEFINE r == c.samples[s].response
           q == c.samples[s].student
           h == c.samples[s].teacher
           tokens == Align!Tokens(c, s)
           end == <<Align!Zero>>
           before == Align!Fill(h - 1, <<s, 0>>)
           rows == before \o tokens \o end
           empty == Align!Fill(q - 1, Align!Zero)
<1>1. h \in Nat \ {0} /\ q \in Nat \ {0} /\ r \in Nat \ {0} /\ s \in Nat BY SampleIs
<1>2. tokens \in Seq(Score) /\ Len(tokens) = r /\ \A t \in 1 .. r : tokens[t] = <<s, t>>
    BY <1>1, ScoreTokensAre
<1>3. end \in Seq(Score) /\ Len(end) = 1 /\ Align!Zero \in Score BY ZeroIsScore
<1>4. before \in Seq(Score) /\ Len(before) = h - 1
  <2>1. h - 1 \in Nat /\ <<s, 0>> \in Score BY <1>1 DEF Score
  <2> HIDE DEF h
  <2> QED BY <2>1, FillIs, Zenon
<1>5. empty \in Seq(Score) /\ Len(empty) = q - 1
  <2>1. q - 1 \in Nat BY <1>1
  <2> HIDE DEF q
  <2> QED BY <1>3, <2>1, FillIs, Zenon
<1>6. Align!PromptLogprobs(c, s) = rows BY Zenon DEF Align!PromptLogprobs
<1>7. Align!Aligned(c, s)
        = Align!CausalLayout(Align!SliceResponsePredictions(Align!PromptLogprobs(c, s), r), q)
    BY Zenon DEF Align!Aligned
<1>8. Align!SliceResponsePredictions(rows, r) = SubSeq(rows, Len(rows) - r, Len(rows) - 1)
    BY Zenon DEF Align!SliceResponsePredictions
<1>9. \A x : Align!CausalLayout(x, q) = empty \o x \o end BY Zenon DEF Align!CausalLayout
<1> HIDE DEF r, q, h, tokens, end, before, empty
<1>10. /\ Len(rows) = Len(before) + Len(tokens) + Len(end)
       /\ SubSeq(rows, Len(before) + 1, Len(before) + Len(tokens)) = tokens
  <2>1. before \in Seq(Score) /\ tokens \in Seq(Score) /\ end \in Seq(Score)
      BY <1>2, <1>3, <1>4, Zenon
  <2>2. Len(before \o tokens \o end) = Len(before) + Len(tokens) + Len(end)
      BY <2>1, Between
  <2>3. SubSeq(before \o tokens \o end, Len(before) + 1, Len(before) + Len(tokens)) = tokens
      BY <2>1, Between
  <2> QED BY <2>2, <2>3, Zenon
<1> HIDE DEF rows
<1>11. Align!SliceResponsePredictions(rows, r) = tokens
  <2>1. Len(rows) - r = Len(before) + 1 /\ Len(rows) - 1 = Len(before) + Len(tokens)
      BY <1>1, <1>2, <1>3, <1>4, <1>10
  <2> QED BY <1>8, <1>10, <2>1, Zenon
<1>12. Align!Aligned(c, s) = empty \o tokens \o end BY <1>6, <1>7, <1>9, <1>11, Zenon
<1>13. /\ empty \o tokens \o end \in Seq(Score)
       /\ Len(empty \o tokens \o end) = Len(empty) + Len(tokens) + Len(end)
       /\ \A t \in 1 .. Len(tokens) : (empty \o tokens \o end)[Len(empty) + t] = tokens[t]
  <2>1. empty \in Seq(Score) /\ tokens \in Seq(Score) /\ end \in Seq(Score)
      BY <1>2, <1>3, <1>5, Zenon
  <2>2. empty \o tokens \o end \in Seq(Score) BY <2>1, Between
  <2>3. Len(empty \o tokens \o end) = Len(empty) + Len(tokens) + Len(end)
      BY <2>1, Between
  <2>4. \A t \in 1 .. Len(tokens) : (empty \o tokens \o end)[Len(empty) + t] = tokens[t]
      BY <2>1, Between
  <2> QED BY <2>2, <2>3, <2>4, Zenon
<1>14. Len(Align!Aligned(c, s)) = q + r BY <1>1, <1>2, <1>3, <1>5, <1>12, <1>13
<1>15. \A t \in 1 .. r : Align!Aligned(c, s)[(q - 1) + t] = <<s, t>>
    BY <1>2, <1>5, <1>12, <1>13, Zenon
<1>16. Align!Aligned(c, s) \in Seq(Score) BY <1>12, <1>13, Zenon
<1> QED BY <1>14, <1>15, <1>16, Zenon DEF r, q

\* What is padded comes back unpadded.
LEMMA UnpadIs ==
    ASSUME NEW c, BatchCase(c), NEW s \in 1 .. Len(c.samples), NEW rows \in Seq(Score),
           Len(rows) = c.samples[s].student + c.samples[s].response
    PROVE  Align!Unpad(c, s, Align!Pad(c, s, rows)) = rows
<1> DEFINE r == c.samples[s].response
           q == c.samples[s].student
           left == Align!Fill(c.promptWidth - q, Align!Zero)
           right == Align!Fill(c.responseWidth - r, Align!Zero)
<1>1. /\ q \in Nat /\ r \in Nat /\ c.promptWidth \in Nat /\ q <= c.promptWidth
      /\ c.responseWidth \in Nat /\ r <= c.responseWidth
    BY SampleIs
<1>2. Align!Zero \in Score BY ZeroIsScore
<1>3. left \in Seq(Score) /\ Len(left) = c.promptWidth - q
  <2>1. c.promptWidth - q \in Nat BY <1>1
  <2> HIDE DEF q
  <2> QED BY <1>2, <2>1, FillIs, Zenon
<1>4. right \in Seq(Score)
  <2>1. c.responseWidth - r \in Nat BY <1>1
  <2> HIDE DEF r
  <2> QED BY <1>2, <2>1, FillIs, Zenon
<1>5. Align!Pad(c, s, rows) = left \o rows \o right BY Zenon DEF Align!Pad
<1>6. \A x : Align!Unpad(c, s, x) = SubSeq(x, (c.promptWidth - q) + 1, c.promptWidth + r)
    BY Zenon DEF Align!Unpad
<1>7. Len(rows) = q + r OBVIOUS
<1> HIDE DEF r, q, left, right
<1>8. SubSeq(left \o rows \o right, Len(left) + 1, Len(left) + Len(rows)) = rows
  <2>1. left \in Seq(Score) /\ rows \in Seq(Score) /\ right \in Seq(Score) BY <1>3, <1>4, Zenon
  <2> QED BY <2>1, MiddleIs, Zenon
<1>9. Len(left) + 1 = (c.promptWidth - q) + 1 /\ Len(left) + Len(rows) = c.promptWidth + r
  <2> DEFINE w == c.promptWidth
             x == Len(left)
             y == Len(rows)
  <2>1. q \in Nat /\ r \in Nat /\ w \in Nat BY <1>1
  <2>2. x = w - q /\ y = q + r BY <1>3, <1>7
  <2> HIDE DEF w, x, y
  <2>3. x + 1 = (w - q) + 1 BY <2>2
  <2>4. x + y = w + r BY <2>1, <2>2
  <2> QED BY <2>3, <2>4 DEF w, x, y
<1> QED BY <1>5, <1>6, <1>8, <1>9, Zenon

LEMMA InputTokensAre ==
    ASSUME NEW c, BatchCase(c), NEW s \in 1 .. Len(c.samples)
    PROVE  LET r == c.samples[s].response
               q == c.samples[s].student
           IN /\ Align!InputTokens(c, s) \in Seq(Score)
              /\ Len(Align!InputTokens(c, s)) = q + r
              /\ \A t \in 1 .. r : Align!InputTokens(c, s)[q + t] = <<s, t>>
<1> DEFINE r == c.samples[s].response
           q == c.samples[s].student
           tokens == Align!Tokens(c, s)
           prompt == Align!Fill(q, <<s, 0>>)
           u == prompt \o tokens
<1>1. q \in Nat /\ r \in Nat /\ s \in Nat BY SampleIs
<1>2. tokens \in Seq(Score) /\ Len(tokens) = r /\ \A t \in 1 .. r : tokens[t] = <<s, t>>
    BY <1>1, ScoreTokensAre
<1>3. prompt \in Seq(Score) /\ Len(prompt) = q
  <2>1. <<s, 0>> \in Score BY <1>1 DEF Score
  <2> HIDE DEF q
  <2> QED BY <1>1, <2>1, FillIs, Zenon
<1>4. Align!InputTokens(c, s) = u BY Zenon DEF Align!InputTokens
<1> HIDE DEF r, q, tokens, prompt
<1>5. /\ u \in Seq(Score) /\ Len(u) = Len(prompt) + Len(tokens)
      /\ \A k \in 1 .. Len(prompt) + Len(tokens) :
            u[k] = IF k <= Len(prompt) THEN prompt[k] ELSE tokens[k - Len(prompt)]
    BY <1>2, <1>3, ConcatProperties, Zenon
<1> HIDE DEF u
<1>6. ASSUME NEW t \in 1 .. r PROVE u[q + t] = <<s, t>>
  <2>1. q + t \in 1 .. q + r /\ ~(q + t <= q) /\ (q + t) - q = t BY <1>1
  <2> QED BY <1>2, <1>3, <1>5, <2>1
<1>7. Len(u) = q + r BY <1>2, <1>3, <1>5
<1> QED BY <1>4, <1>5, <1>6, <1>7, Zenon DEF r, q

LEMMA StartIsBatch ==
    ASSUME NEW c, BatchCase(c)
    PROVE  BatchInv(c, Align!StartBatch)
<1> DEFINE b == Align!StartBatch
<1>1. b \in BatchRecord /\ b.padded = <<>> /\ b.jagged = <<>> /\ b.inputs = <<>> /\ b.offsets = <<>>
    BY DEF Align!StartBatch, BatchRecord
<1> HIDE DEF b
<1>2. Len(b.jagged) = 0 /\ Len(b.inputs) = 0 /\ Len(b.offsets) = 0 /\ BatchEnd(b) = 0
    BY <1>1 DEF BatchEnd
<1>3. 0 <= Len(c.samples)
  <2>1. c.samples \in Seq(SampleRecord) BY DEF BatchCase
  <2> QED BY <2>1, LenProperties
<1>4. 1 .. Len(b.offsets) = {} BY <1>2
<1>5. BatchInv(c, b) BY <1>1, <1>2, <1>3, <1>4, Zenon DEF BatchInv
<1> QED BY <1>5 DEF b

\* One more sample: its values behind the others, by both ways the same.
LEMMA PackKeepsBatch ==
    ASSUME NEW c, BatchCase(c), NEW b, BatchInv(c, b), ~Align!Packed(c, b)
    PROVE  BatchInv(c, Align!PackSample(c, b))
<1> DEFINE m == Align!PackSample(c, b)
           n == Len(b.offsets)
           s == n + 1
           last == BatchEnd(b)
           r == c.samples[s].response
           q == c.samples[s].student
           scores == Align!Aligned(c, s)
           tokens == Align!InputTokens(c, s)
           end == last + q + r
<1>1. /\ b.padded \in Seq(Score) /\ b.jagged \in Seq(Score) /\ b.inputs \in Seq(Score)
      /\ b.offsets \in Seq(Nat)
    BY DEF BatchInv, BatchRecord
<1>2. n \in Nat /\ c.samples \in Seq(SampleRecord) BY <1>1, LenProperties DEF BatchCase
<1>3. s \in 1 .. Len(c.samples)
  <2>1. n <= Len(c.samples) /\ n # Len(c.samples) BY DEF BatchInv, Align!Packed
  <2>2. Len(c.samples) \in Nat BY <1>2, LenProperties
  <2> QED BY <1>2, <2>1, <2>2
<1>4. last \in Nat /\ Len(b.jagged) = last /\ Len(b.inputs) = last
  <2>1. Len(b.jagged) = last /\ Len(b.inputs) = last BY DEF BatchInv
  <2>2. Len(b.jagged) \in Nat BY <1>1, LenProperties
  <2> QED BY <2>1, <2>2
<1>5. q \in Nat \ {0} /\ r \in Nat \ {0} BY <1>3, SampleIs
<1>6. /\ scores \in Seq(Score) /\ Len(scores) = q + r
      /\ \A t \in 1 .. r : scores[(q - 1) + t] = <<s, t>>
    BY <1>3, AlignedIs
<1>7. /\ tokens \in Seq(Score) /\ Len(tokens) = q + r
      /\ \A t \in 1 .. r : tokens[q + t] = <<s, t>>
    BY <1>3, InputTokensAre
<1>8. Align!Unpad(c, s, Align!Pad(c, s, scores)) = scores
  <2> HIDE DEF s, scores
  <2> QED BY <1>3, <1>6, UnpadIs, Zenon DEF q, r
<1>9. m = [padded  |-> b.padded \o scores, jagged |-> b.jagged \o scores,
           inputs  |-> b.inputs \o tokens, offsets |-> Append(b.offsets, end)]
  <2>1. last = IF s = 1 THEN 0 ELSE b.offsets[s - 1]
    <3>1. n = 0 <=> b.offsets = <<>> BY <1>1, EmptySeq
    <3>2. (s = 1 <=> n = 0) /\ s - 1 = n BY <1>2
    <3> QED BY <3>1, <3>2 DEF BatchEnd
  <2>2. m = [padded  |-> b.padded \o Align!Unpad(c, s, Align!Pad(c, s, scores)),
             jagged  |-> b.jagged \o scores, inputs |-> b.inputs \o tokens,
             offsets |-> Append(b.offsets, (IF s = 1 THEN 0 ELSE b.offsets[s - 1]) + q + r)]
      BY Zenon DEF Align!PackSample
  <2> HIDE DEF m, s, last, q, r, scores, tokens
  <2> QED BY <1>8, <2>1, <2>2, Zenon
<1> HIDE DEF m, n, s, last, r, q, scores, tokens
<1>10. /\ m.padded = b.padded \o scores /\ m.jagged = b.jagged \o scores
       /\ m.inputs = b.inputs \o tokens /\ m.offsets = Append(b.offsets, end)
    BY <1>9
<1>11. end \in Nat /\ r < end /\ last <= end BY <1>4, <1>5
<1> HIDE DEF end
<1>12. /\ m.offsets \in Seq(Nat) /\ Len(m.offsets) = s /\ m.offsets # <<>>
       /\ m.offsets[s] = end /\ \A i \in 1 .. n : m.offsets[i] = b.offsets[i]
  <2>1. b.offsets \in Seq(Nat) /\ end \in Nat BY <1>1, <1>11
  <2>2. Append(b.offsets, end) \in Seq(Nat) BY <2>1, AppendProperties
  <2>3. Append(b.offsets, end) # <<>> BY <2>1, AppendProperties
  <2>4. Len(Append(b.offsets, end)) = Len(b.offsets) + 1
        /\ Append(b.offsets, end)[Len(b.offsets) + 1] = end
      BY <2>1, AppendProperties
  <2>5. \A i \in 1 .. Len(b.offsets) : Append(b.offsets, end)[i] = b.offsets[i]
      BY <2>1, AppendProperties
  <2> QED BY <1>10, <2>2, <2>3, <2>4, <2>5, Zenon DEF n, s
<1>13. b.padded = b.jagged /\ m.padded = m.jagged BY <1>10 DEF BatchInv
<1>14. /\ m.jagged \in Seq(Score) /\ Len(m.jagged) = last + (q + r)
       /\ \A k \in 1 .. last + (q + r) :
             m.jagged[k] = IF k <= last THEN b.jagged[k] ELSE scores[k - last]
  <2>1. /\ b.jagged \o scores \in Seq(Score)
        /\ Len(b.jagged \o scores) = Len(b.jagged) + Len(scores)
      BY <1>1, <1>6, ConcatProperties
  <2>2. \A k \in 1 .. Len(b.jagged) + Len(scores) :
           (b.jagged \o scores)[k] = IF k <= Len(b.jagged) THEN b.jagged[k]
                                     ELSE scores[k - Len(b.jagged)]
      BY <1>1, <1>6, ConcatProperties
  <2> QED BY <1>4, <1>6, <1>10, <2>1, <2>2
<1>15. /\ m.inputs \in Seq(Score) /\ Len(m.inputs) = last + (q + r)
       /\ \A k \in 1 .. last + (q + r) :
             m.inputs[k] = IF k <= last THEN b.inputs[k] ELSE tokens[k - last]
  <2>1. /\ b.inputs \o tokens \in Seq(Score)
        /\ Len(b.inputs \o tokens) = Len(b.inputs) + Len(tokens)
      BY <1>1, <1>7, ConcatProperties
  <2>2. \A k \in 1 .. Len(b.inputs) + Len(tokens) :
           (b.inputs \o tokens)[k] = IF k <= Len(b.inputs) THEN b.inputs[k]
                                     ELSE tokens[k - Len(b.inputs)]
      BY <1>1, <1>7, ConcatProperties
  <2> QED BY <1>4, <1>7, <1>10, <2>1, <2>2
<1>16. BatchEnd(m) = end /\ end = last + (q + r)
  <2>1. end = last + (q + r) BY <1>4, <1>5 DEF end
  <2> QED BY <1>12, <2>1 DEF BatchEnd
<1>17. m \in BatchRecord
  <2>1. m.padded \in Seq(Score) BY <1>13, <1>14
  <2>2. m = [padded |-> m.padded, jagged |-> m.jagged, inputs |-> m.inputs,
             offsets |-> m.offsets]
      BY <1>9, <1>10, Zenon
  <2> QED BY <1>12, <1>14, <1>15, <2>1, <2>2 DEF BatchRecord
<1>18. ASSUME NEW i \in 1 .. Len(m.offsets)
       PROVE  LET o == m.offsets[i]
                  p == c.samples[i].response
              IN /\ p < o /\ o <= BatchEnd(m)
                 /\ \A t \in 1 .. p : /\ m.jagged[((o - p) - 1) + t] = <<i, t>>
                                      /\ m.inputs[(o - p) + t] = <<i, t>>
  <2>1. CASE i = s
    <3>1. m.offsets[i] = end /\ c.samples[i].response = r BY <1>12, <2>1 DEF r
    <3>2. ASSUME NEW t \in 1 .. r
          PROVE  m.jagged[((end - r) - 1) + t] = <<s, t>> /\ m.inputs[(end - r) + t] = <<s, t>>
      <4> DEFINE j == ((end - r) - 1) + t
                 k == (end - r) + t
      <4>1. /\ j \in 1 .. last + (q + r) /\ ~(j <= last) /\ j - last = (q - 1) + t
            /\ k \in 1 .. last + (q + r) /\ ~(k <= last) /\ k - last = q + t
          BY <1>4, <1>5, <1>16
      <4> HIDE DEF j, k
      <4>2. m.jagged[j] = <<s, t>>
        <5>1. m.jagged[j] = scores[j - last] BY <1>14, <4>1
        <5>2. scores[(q - 1) + t] = <<s, t>> BY <1>6
        <5> QED BY <4>1, <5>1, <5>2
      <4>3. m.inputs[k] = <<s, t>>
        <5>1. m.inputs[k] = tokens[k - last] BY <1>15, <4>1
        <5>2. tokens[q + t] = <<s, t>> BY <1>7
        <5> QED BY <4>1, <5>1, <5>2
      <4> QED BY <4>2, <4>3 DEF j, k
    <3>3. r < end /\ end <= end BY <1>11
    <3> QED BY <1>16, <2>1, <3>1, <3>2, <3>3
  <2>2. CASE i \in 1 .. n
    <3> DEFINE o == b.offsets[i]
               p == c.samples[i].response
    <3>1. /\ p < o /\ o <= last
          /\ \A t \in 1 .. p : b.jagged[((o - p) - 1) + t] = <<i, t>> /\ b.inputs[(o - p) + t] = <<i, t>>
        BY <2>2 DEF BatchInv, n, last
    <3>2. m.offsets[i] = o BY <1>12, <2>2
    <3>3. o \in Nat /\ p \in Nat
      <4>1. o \in Nat BY <1>1, <2>2, ElementOfSeq DEF n
      <4>2. i \in 1 .. Len(c.samples) BY <1>2, <1>3, <2>2, LenProperties DEF s
      <4> QED BY <4>1, <4>2, SampleIs
    <3> HIDE DEF o, p
    <3>4. ASSUME NEW t \in 1 .. p
          PROVE  m.jagged[((o - p) - 1) + t] = <<i, t>> /\ m.inputs[(o - p) + t] = <<i, t>>
      <4> DEFINE j == ((o - p) - 1) + t
                 k == (o - p) + t
      <4>1. /\ j \in 1 .. last + (q + r) /\ j <= last /\ k \in 1 .. last + (q + r) /\ k <= last
          BY <1>4, <1>5, <3>1, <3>3
      <4>2. b.jagged[j] = <<i, t>> /\ b.inputs[k] = <<i, t>> BY <3>1
      <4> HIDE DEF j, k
      <4> QED BY <1>14, <1>15, <4>1, <4>2 DEF j, k
    <3>5. o <= BatchEnd(m) BY <1>4, <1>11, <1>16, <3>1, <3>3
    <3> QED BY <3>1, <3>2, <3>4, <3>5 DEF p
  <2> QED BY <1>2, <1>12, <2>1, <2>2 DEF s
<1>19. Len(m.offsets) <= Len(c.samples) BY <1>3, <1>12
<1>20. Len(m.jagged) = BatchEnd(m) /\ Len(m.inputs) = BatchEnd(m) BY <1>14, <1>15, <1>16
<1>21. BatchInv(c, m)
    BY <1>13, <1>17, <1>18, <1>19, <1>20, Zenon DEF BatchInv
<1> QED BY <1>21 DEF m

\* The rows cut out for a sample's response.
LEMMA ResponseRowsAre ==
    ASSUME NEW c, BatchCase(c), NEW b, BatchInv(c, b), NEW s \in 1 .. Len(b.offsets),
           NEW values \in Seq(Score), Len(values) = BatchEnd(b),
           \A t \in 1 .. c.samples[s].response :
              values[((b.offsets[s] - c.samples[s].response) - 1) + t] = <<s, t>>
    PROVE  Align!ResponseRows(c, b, values, s) = Align!Tokens(c, s)
<1> DEFINE o == b.offsets[s]
           r == c.samples[s].response
           tokens == Align!Tokens(c, s)
           from == (o - r) - 1
<1>1. b.offsets \in Seq(Nat) BY DEF BatchInv, BatchRecord
<1>2. o \in Nat BY <1>1, ElementOfSeq
<1>3. r < o /\ o <= Len(values) BY DEF BatchInv
<1>4. s \in 1 .. Len(c.samples)
  <2>1. Len(b.offsets) <= Len(c.samples) BY DEF BatchInv
  <2>2. c.samples \in Seq(SampleRecord) BY DEF BatchCase
  <2>3. Len(b.offsets) \in Nat /\ Len(c.samples) \in Nat BY <1>1, <2>2, LenProperties
  <2> QED BY <2>1, <2>3
<1>5. r \in Nat \ {0} /\ s \in Nat BY <1>4, SampleIs
<1>6. tokens \in Seq(Score) /\ Len(tokens) = r /\ \A t \in 1 .. r : tokens[t] = <<s, t>>
    BY <1>5, ScoreTokensAre
<1>7. \A t \in 1 .. r : values[from + t] = <<s, t>> OBVIOUS
<1>8. Align!ResponseRows(c, b, values, s) = SubSeq(values, o - r, o - 1)
    BY Zenon DEF Align!ResponseRows
<1>9. Len(values) \in Nat BY LenProperties
<1> HIDE DEF o, r, tokens
<1>10. from \in Nat /\ from + r <= Len(values) /\ from + 1 = o - r /\ from + r = o - 1
    BY <1>2, <1>3, <1>5, <1>9
<1> HIDE DEF from
<1>11. \A t \in 1 .. Len(tokens) : values[from + t] = tokens[t] BY <1>6, <1>7
<1>12. SubSeq(values, from + 1, from + Len(tokens)) = tokens
  <2>1. from + Len(tokens) <= Len(values) BY <1>6, <1>10
  <2> QED BY <1>6, <1>10, <1>11, <2>1, SubSeqIs, Zenon
<1> QED BY <1>6, <1>8, <1>10, <1>12, Zenon DEF tokens

LEMMA StudentRowsAre ==
    ASSUME NEW ids \in Seq(Score), NEW u, u = Align!StudentLogprobs(ids)
    PROVE  /\ u \in Seq(Score) /\ Len(u) = Len(ids)
           /\ \A k \in 1 .. Len(ids) - 1 : u[k] = ids[k + 1]
<1> DEFINE n == Len(ids)
           at(k) == IF k = n THEN ids[1] ELSE ids[k + 1]
<1>1. n \in Nat BY LenProperties
<1>2. DOMAIN ids = 1 .. n BY LenProperties
<1>3. u = [k \in 1 .. n |-> at(k)] BY <1>2, Zenon DEF Align!StudentLogprobs
<1>4. \A k \in 1 .. n : at(k) \in Score
  <2> SUFFICES ASSUME NEW k \in 1 .. n PROVE at(k) \in Score OBVIOUS
  <2>1. CASE k = n
    <3>1. 1 \in 1 .. n BY <1>1
    <3>2. ids[1] \in Score BY <3>1, ElementOfSeq
    <3> QED BY <2>1, <3>2
  <2>2. CASE k # n
    <3>1. k + 1 \in 1 .. n
      <4> HIDE DEF n
      <4> QED BY <1>1, <2>2
    <3>2. ids[k + 1] \in Score BY <3>1, ElementOfSeq
    <3> QED BY <2>2, <3>2
  <2> QED BY <2>1, <2>2
<1>5. \A k \in 1 .. n - 1 : k \in 1 .. n /\ at(k) = ids[k + 1]
  <2> HIDE DEF n
  <2>1. \A k \in 1 .. n - 1 : k \in 1 .. n /\ k # n BY <1>1
  <2> QED BY <2>1, Zenon
<1> HIDE DEF n, at
<1>6. u \in Seq(Score) /\ Len(u) = n BY <1>1, <1>3, <1>4
<1>7. \A k \in 1 .. n - 1 : u[k] = ids[k + 1] BY <1>3, <1>5, Zenon
<1> QED BY <1>6, <1>7 DEF n

\* What the loss pairs of a packed sample is about the same tokens.
LEMMA LossRowsPair ==
    ASSUME NEW c, BatchCase(c), NEW b, BatchInv(c, b), NEW s \in 1 .. Len(b.offsets)
    PROVE  /\ Align!LossRows(c, b, s) \in RowsRecord
           /\ Align!PairsSameTokens(c, s, Align!LossRows(c, b, s))
<1> DEFINE r == c.samples[s].response
           o == b.offsets[s]
           rows == Align!LossRows(c, b, s)
           tokens == Align!Tokens(c, s)
           padding == Align!Fill(c.responseWidth - r, Align!Zero)
           student == Align!StudentLogprobs(b.inputs)
<1>1. /\ b.padded \in Seq(Score) /\ b.jagged \in Seq(Score) /\ b.inputs \in Seq(Score)
      /\ b.offsets \in Seq(Nat)
    BY DEF BatchInv, BatchRecord
<1>2. /\ Len(b.padded) = BatchEnd(b) /\ Len(b.jagged) = BatchEnd(b) /\ Len(b.inputs) = BatchEnd(b)
      /\ b.padded = b.jagged
    BY DEF BatchInv
<1>3. /\ r < o /\ o <= BatchEnd(b)
      /\ \A t \in 1 .. r : b.jagged[((o - r) - 1) + t] = <<s, t>> /\ b.inputs[(o - r) + t] = <<s, t>>
    BY DEF BatchInv
<1>4. o \in Nat BY <1>1, ElementOfSeq
<1>5. s \in 1 .. Len(c.samples)
  <2>1. Len(b.offsets) <= Len(c.samples) BY DEF BatchInv
  <2>2. c.samples \in Seq(SampleRecord) BY DEF BatchCase
  <2>3. Len(b.offsets) \in Nat /\ Len(c.samples) \in Nat BY <1>1, <2>2, LenProperties
  <2> QED BY <2>1, <2>3
<1>6. r \in Nat \ {0} /\ s \in Nat /\ c.responseWidth \in Nat /\ r <= c.responseWidth
    BY <1>5, SampleIs
<1>7. tokens \in Seq(Score) BY <1>6, ScoreTokensAre
<1>8. padding \in Seq(Score)
  <2>1. c.responseWidth - r \in Nat BY <1>6
  <2>2. Align!Zero \in Score BY ZeroIsScore
  <2> HIDE DEF r
  <2> QED BY <2>1, <2>2, FillIs, Zenon
<1>9. /\ student \in Seq(Score) /\ Len(student) = Len(b.inputs)
      /\ \A k \in 1 .. Len(b.inputs) - 1 : student[k] = b.inputs[k + 1]
  <2> HIDE DEF student
  <2>1. student = Align!StudentLogprobs(b.inputs) BY DEF student
  <2> QED BY <1>1, <2>1, StudentRowsAre
<1>10. \A t \in 1 .. r : student[((o - r) - 1) + t] = <<s, t>>
  <2> SUFFICES ASSUME NEW t \in 1 .. r PROVE student[((o - r) - 1) + t] = <<s, t>> OBVIOUS
  <2> DEFINE k == ((o - r) - 1) + t
  <2>1. Len(b.inputs) \in Nat BY <1>1, LenProperties
  <2>2. b.inputs[(o - r) + t] = <<s, t>> BY <1>3
  <2> HIDE DEF r, o, student
  <2>3. k \in 1 .. Len(b.inputs) - 1 /\ k + 1 = (o - r) + t BY <1>2, <1>3, <1>4, <1>6, <2>1
  <2> HIDE DEF k
  <2> QED BY <1>9, <2>2, <2>3 DEF k
<1>11. /\ Align!ResponseRows(c, b, b.jagged, s) = tokens
       /\ Align!ResponseRows(c, b, b.padded, s) = tokens
       /\ Align!ResponseRows(c, b, student, s) = tokens
  <2>1. Align!ResponseRows(c, b, b.jagged, s) = tokens
    <3>1. \A t \in 1 .. c.samples[s].response :
             b.jagged[((b.offsets[s] - c.samples[s].response) - 1) + t] = <<s, t>>
        BY <1>3
    <3> QED BY <1>1, <1>2, <3>1, ResponseRowsAre, Zenon
  <2>2. Align!ResponseRows(c, b, student, s) = tokens
    <3>1. \A t \in 1 .. c.samples[s].response :
             student[((b.offsets[s] - c.samples[s].response) - 1) + t] = <<s, t>>
        BY <1>10
    <3>2. Len(student) = BatchEnd(b) BY <1>2, <1>9, Zenon
    <3> HIDE DEF student
    <3> QED BY <1>9, <3>1, <3>2, ResponseRowsAre, Zenon
  <2> QED BY <1>2, <2>1, <2>2, Zenon
<1>12. rows = [padded  |-> Align!ResponseRows(c, b, b.padded, s) \o padding,
               jagged  |-> Align!ResponseRows(c, b, b.jagged, s),
               student |-> Align!ResponseRows(c, b, student, s) \o padding]
    BY Zenon DEF Align!LossRows, Align!NoPadding2Padding
<1>13. rows = [padded |-> tokens \o padding, jagged |-> tokens, student |-> tokens \o padding]
  <2> HIDE DEF rows, tokens, padding, student
  <2> QED BY <1>11, <1>12, Zenon
<1>14. tokens \o padding \in Seq(Score)
  <2> HIDE DEF tokens, padding
  <2> QED BY <1>7, <1>8, ConcatProperties
<1>15. rows \in RowsRecord
  <2> DEFINE u == tokens \o padding
  <2>1. u \in Seq(Score) /\ rows = [padded |-> u, jagged |-> tokens, student |-> u]
      BY <1>13, <1>14, Zenon
  <2> HIDE DEF rows, tokens, u
  <2> QED BY <1>7, <2>1 DEF RowsRecord
<1>16. Align!PairsSameTokens(c, s, rows)
  <2>1. /\ rows.padded = tokens \o padding /\ rows.jagged = tokens
        /\ rows.student = tokens \o padding
    <3> DEFINE u == tokens \o padding
    <3>1. rows = [padded |-> u, jagged |-> tokens, student |-> u] BY <1>13, Zenon
    <3> HIDE DEF rows, tokens, u
    <3>2. rows.padded = u /\ rows.jagged = tokens /\ rows.student = u BY <3>1
    <3> QED BY <3>2 DEF u
  <2> HIDE DEF rows
  <2> QED BY <2>1, Zenon DEF Align!PairsSameTokens
<1> QED BY <1>15, <1>16

LEMMA CutKeepsRows ==
    ASSUME NEW c, BatchCase(c), NEW b, BatchInv(c, b), Align!Packed(c, b),
           NEW rows, RowsInv(c, rows), Len(rows) < Len(c.samples)
    PROVE  RowsInv(c, Append(rows, Align!LossRows(c, b, Len(rows) + 1)))
<1> DEFINE n == Len(rows)
           s == n + 1
           new == Align!LossRows(c, b, s)
           m == Append(rows, new)
<1>1. rows \in Seq(RowsRecord) BY DEF RowsInv
<1>2. n \in Nat BY <1>1, LenProperties
<1>3. s \in 1 .. Len(b.offsets)
  <2>1. Len(b.offsets) = Len(c.samples) BY DEF Align!Packed
  <2>2. b.offsets \in Seq(Nat) BY DEF BatchInv, BatchRecord
  <2>3. Len(b.offsets) \in Nat BY <2>2, LenProperties
  <2> QED BY <1>2, <2>1, <2>3
<1>4. new \in RowsRecord /\ Align!PairsSameTokens(c, s, new) BY <1>3, LossRowsPair
<1> HIDE DEF new
<1>5. m \in Seq(RowsRecord) /\ Len(m) = n + 1 BY <1>1, <1>4, AppendProperties
<1>6. m[n + 1] = new /\ \A i \in 1 .. n : m[i] = rows[i] BY <1>1, <1>4, AppendProperties
<1>7. \A i \in 1 .. n : Align!PairsSameTokens(c, i, rows[i]) BY DEF RowsInv
<1> HIDE DEF m, n
<1>8. ASSUME NEW i \in 1 .. Len(m) PROVE Align!PairsSameTokens(c, i, m[i])
  <2>1. CASE i = n + 1 BY <1>4, <1>6, <2>1
  <2>2. CASE i \in 1 .. n BY <1>6, <1>7, <2>2
  <2> QED BY <1>2, <1>5, <2>1, <2>2
<1>9. RowsInv(c, m) BY <1>5, <1>8 DEF RowsInv
<1> QED BY <1>9 DEF m, n, new

-----------------------------------------------------------------------------
(* The behaviours                                                          *)

AlgorithmsInv ==
    /\ kind = "probe" =>
          /\ case \in ProbeCases
          /\ answer # None => /\ LayoutInv(case, answer.layout)
                              /\ ScoresInv(case, answer.layout, answer.scores)
    /\ kind = "align" =>
          /\ case \in BatchCases
          /\ answer # None => BatchInv(case, answer.batch) /\ RowsInv(case, answer.rows)

LEMMA AlgorithmsInit == Init => AlgorithmsInv
BY DEF Init, AlgorithmsInv

LEMMA ProbesStep ==
    ASSUME AlgorithmsInv, Probes
    PROVE  AlgorithmsInv'
<1>1. kind = "probe" /\ kind' = kind /\ case' = case
    BY DEF Probes, LayRollout, LayProbe, GatherProbe, CutProbe, Computes, Asked, Answered
<1>2. case \in ProbeCases BY <1>1 DEF AlgorithmsInv
<1>3. ProbeCase(case) BY <1>2, ProbeCasesAre
<1> SUFFICES LayoutInv(case, answer'.layout) /\ ScoresInv(case, answer'.layout, answer'.scores)
    BY <1>1, <1>2 DEF AlgorithmsInv
<1>4. CASE LayRollout
  <2> DEFINE l == StartLayout(case)
  <2>1. answer' = [layout |-> l, scores |-> StartScores] BY <1>4 DEF LayRollout, Computes
  <2>2. LayoutInv(case, l) BY <1>3, StartIsLayout
  <2> HIDE DEF l
  <2>3. ScoresInv(case, l, StartScores) BY <1>3, <2>2, StartIsScores
  <2> QED BY <2>1, <2>2, <2>3
<1>5. CASE LayProbe
  <2> DEFINE l == answer.layout
             m == AppendBranch(case, l)
  <2>1. answer' = [layout |-> m, scores |-> answer.scores] /\ answer # None /\ ~LaidOut(case, l)
      BY <1>5 DEF LayProbe, Computes, Answered
  <2>2. LayoutInv(case, l) /\ ScoresInv(case, l, answer.scores) BY <1>1, <2>1 DEF AlgorithmsInv
  <2>3. answer.scores = StartScores BY <2>1, <2>2 DEF ScoresInv
  <2>4. LayoutInv(case, m) BY <1>3, <2>1, <2>2, AppendKeepsLayout
  <2> HIDE DEF l, m
  <2>5. ScoresInv(case, m, StartScores) BY <1>3, <2>4, StartIsScores
  <2> QED BY <2>1, <2>3, <2>4, <2>5
<1>6. CASE GatherProbe
  <2> DEFINE l == answer.layout
             s == answer.scores
             m == GatherBranch(l, s)
  <2>1. /\ answer' = [layout |-> l, scores |-> m] /\ answer # None
        /\ LaidOut(case, l) /\ ~Gathered(l, s)
      BY <1>6 DEF GatherProbe, Computes, Answered
  <2>2. LayoutInv(case, l) /\ ScoresInv(case, l, s) BY <1>1, <2>1 DEF AlgorithmsInv
  <2> HIDE DEF l, s
  <2>3. ScoresInv(case, l, m) BY <1>3, <2>1, <2>2, GatherKeepsScores
  <2> HIDE DEF m
  <2> QED BY <2>1, <2>2, <2>3
<1>7. CASE CutProbe
  <2> DEFINE l == answer.layout
             s == answer.scores
             m == CutBranch(s)
  <2>1. /\ answer' = [layout |-> l, scores |-> m] /\ answer # None
        /\ LaidOut(case, l) /\ Len(s.values) < Len(s.widths)
      BY <1>7 DEF CutProbe, Computes, Answered
  <2>2. LayoutInv(case, l) /\ ScoresInv(case, l, s) BY <1>1, <2>1 DEF AlgorithmsInv
  <2> HIDE DEF l, s
  <2>3. ScoresInv(case, l, m) BY <1>3, <2>1, <2>2, CutKeepsScores
  <2> HIDE DEF m
  <2> QED BY <2>1, <2>2, <2>3
<1> QED BY <1>4, <1>5, <1>6, <1>7 DEF Probes

LEMMA AlignsStep ==
    ASSUME AlgorithmsInv, Aligns
    PROVE  AlgorithmsInv'
<1>1. kind = "align" /\ kind' = kind /\ case' = case
    BY DEF Aligns, StartAlign, PackScores, CutScores, Computes, Asked, Answered
<1>2. case \in BatchCases BY <1>1 DEF AlgorithmsInv
<1>3. BatchCase(case) BY <1>2, BatchCasesAre
<1> SUFFICES BatchInv(case, answer'.batch) /\ RowsInv(case, answer'.rows)
    BY <1>1, <1>2 DEF AlgorithmsInv
<1>4. CASE StartAlign
  <2> DEFINE m == Align!StartBatch
  <2>1. answer' = [batch |-> m, rows |-> <<>>] BY <1>4 DEF StartAlign, Computes
  <2>2. BatchInv(case, m) BY <1>3, StartIsBatch
  <2> HIDE DEF m
  <2>3. RowsInv(case, <<>>) BY DEF RowsInv
  <2> QED BY <2>1, <2>2, <2>3
<1>5. CASE PackScores
  <2> DEFINE b == answer.batch
             m == Align!PackSample(case, b)
  <2>1. /\ answer' = [batch |-> m, rows |-> answer.rows] /\ answer # None
        /\ ~Align!Packed(case, b)
      BY <1>5 DEF PackScores, Computes, Answered
  <2>2. BatchInv(case, b) /\ RowsInv(case, answer.rows) BY <1>1, <2>1 DEF AlgorithmsInv
  <2>3. BatchInv(case, m) BY <1>3, <2>1, <2>2, PackKeepsBatch
  <2> HIDE DEF b, m
  <2> QED BY <2>1, <2>2, <2>3
<1>6. CASE CutScores
  <2> DEFINE b == answer.batch
             rows == answer.rows
             m == Append(rows, Align!LossRows(case, b, Len(rows) + 1))
  <2>1. /\ answer' = [batch |-> b, rows |-> m] /\ answer # None
        /\ Align!Packed(case, b) /\ Len(rows) < Len(case.samples)
      BY <1>6 DEF CutScores, Computes, Answered
  <2>2. BatchInv(case, b) /\ RowsInv(case, rows) BY <1>1, <2>1 DEF AlgorithmsInv
  <2> HIDE DEF b, rows
  <2>3. RowsInv(case, m) BY <1>3, <2>1, <2>2, CutKeepsRows
  <2> HIDE DEF m
  <2> QED BY <2>1, <2>2, <2>3
<1> QED BY <1>4, <1>5, <1>6 DEF Aligns

LEMMA AlgorithmsStep == AlgorithmsInv /\ [Next]_vars => AlgorithmsInv'
<1> SUFFICES ASSUME AlgorithmsInv, [Next]_vars PROVE AlgorithmsInv'
    OBVIOUS
<1>1. CASE Probes BY <1>1, ProbesStep
<1>2. CASE Aligns BY <1>2, AlignsStep
<1>3. CASE SelectResponses \/ BalanceBatch \/ RearrangeMicroBatches
  <2>1. kind' \in {"study", "divide"}
      BY <1>3 DEF SelectResponses, BalanceBatch, RearrangeMicroBatches, Computes, Asked, Answered
  <2> QED BY <2>1 DEF AlgorithmsInv
<1>4. CASE UNCHANGED vars BY <1>4 DEF vars, AlgorithmsInv
<1> QED BY <1>1, <1>2, <1>3, <1>4 DEF Next

\* The inductive invariant: what the loops have established after each turn.
THEOREM AlgorithmsAlways == Spec => []AlgorithmsInv
<1> QED BY AlgorithmsInit, AlgorithmsStep, PTL DEF Spec

\* However long the rollout, its reasoning steps and the probe: the worker
\* accepts the layout, and every branch of the one packed forward has the
\* tokens, positions, attention and scored rows of its own sequence
\* (utils/fast_oa_opd.py:62, vllm_rollout/utils.py:224).
THEOREM ProbesStayIndependent == Spec => []ProbesAreIndependent
<1>1. AlgorithmsInv => ProbesAreIndependent
  <2> SUFFICES ASSUME AlgorithmsInv, kind = "probe", answer # None
               PROVE  /\ LaidOut(case, answer.layout) => Accepts(answer.layout)
                      /\ \A i \in DOMAIN answer.layout.branches :
                            SameAsAlone(case, answer.layout, i)
                      /\ RaggedIsDense(answer.layout)
                      /\ \A i \in DOMAIN answer.scores.values :
                            answer.scores.values[i] = ScoredAlone(case, answer.layout, i)
      BY DEF ProbesAreIndependent, Answered
  <2>1. LayoutInv(case, answer.layout) /\ ScoresInv(case, answer.layout, answer.scores)
      BY DEF AlgorithmsInv
  <2>2. ProbeCase(case) BY ProbeCasesAre DEF AlgorithmsInv
  <2> QED BY <2>1, <2>2, PackedIsAlone
<1> QED BY <1>1, AlgorithmsAlways, PTL

\* However many samples the batch has, with prompts and responses of any
\* lengths: row t that the loss pairs is about token t of the same response on
\* both sides, padded or jagged (teacher_manager.py:76, padding.py:144).
THEOREM TeacherScoresStayAligned == Spec => []TeacherScoresAlign
<1>1. AlgorithmsInv => TeacherScoresAlign
  <2> SUFFICES ASSUME AlgorithmsInv, kind = "align", answer # None
               PROVE  \A s \in DOMAIN answer.rows : Align!PairsSameTokens(case, s, answer.rows[s])
      BY DEF TeacherScoresAlign, Answered
  <2>1. RowsInv(case, answer.rows) BY DEF AlgorithmsInv
  <2>2. DOMAIN answer.rows = 1 .. Len(answer.rows)
    <3>1. answer.rows \in Seq(RowsRecord) BY <2>1 DEF RowsInv
    <3> QED BY <3>1, LenProperties
  <2> QED BY <2>1, <2>2 DEF RowsInv
<1> QED BY <1>1, AlgorithmsAlways, PTL
=============================================================================

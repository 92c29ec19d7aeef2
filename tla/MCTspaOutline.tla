--------------------------- MODULE MCTspaOutline ---------------------------
(* The least outline of the features, computed step by step.                 *)
EXTENDS MCTspaFeature, TspaOutline, SequencesExt

(* The places of a scenario in their order.                                 *)
PlacesOf(i) == [j \in 1 .. Len(Feature[i].steps) + 2 |-> [scenario |-> i, step |-> j - 1]]

Nowhere == Finds([p \in Pointer |-> {}], {}, {}, {})
Join(n, o) == Finds([p \in Pointer |-> n.found[p] \cup o.found[p]], n.token \cup o.token,
                    n.file \cup o.file, n.answer \cup o.answer)

(* One step of the computation: what k adds to the places after it.          *)
Spread(Makes(_, _), n, k) ==
  LET o == n[k]
      fails == Stepping(k) /\ CanFail(StepAt(k), o)
      on    == IF Over(k) THEN n ELSE [n EXCEPT ![On(k)] = Join(@, Makes(k, o))]
  IN  IF Over(k) \/ fails THEN [on EXCEPT ![Off(k)] = Join(@, Skipped(o))] ELSE on

Begin(mode) ==
  LET L == {found \in Leftover : mode = "shared" \/ (Dirty(found) <=> mode = "dirty")}
  IN  IF L = {} THEN Nowhere
      ELSE Finds([p \in Pointer |-> {found[p] : found \in L}], {"none"},
                 {"none", "zm", "expired"}, {NoResponse})
Meeting(mode, o) == IF mode = "shared" /\ o.file # {}
                    THEN [o EXCEPT !.found = [p \in Pointer |-> MayMeet(p)]] ELSE o

(* The element of a singleton: TLC then has it before it goes on.            *)
The(S) == CHOOSE x \in S : x = x

Outlines(Makes(_, _)) ==
  LET Visit(mode, n, k) == Spread(Makes, [n EXCEPT ![k] = Meeting(mode, @)], k)
      Through(mode, n, i) == FoldLeft(LAMBDA m, k : Visit(mode, m, k), n, PlacesOf(i))
      Upto[mode \in Modes, i \in 0 .. Len(Feature)] ==
        IF i = 0 THEN [[k \in Positions |-> Nowhere] EXCEPT ![Start] = Begin(mode)]
        ELSE The({Through(mode, n, i) : n \in {Upto[mode, i - 1]}})
  IN  [mode \in Modes |-> [Upto[mode, Len(Feature)] EXCEPT ![End] = Meeting(mode, @)]]

TspaOutlines == Outlines(Onward)

(* What the requests a run has before it, with its tokens, turn into the      *)
(* test data.                                                              *)
Before(S, k, shared) ==
  IF Sends(k) /\ shared[k].token = {"tspa"}
  THEN LET q == StepAt(k).request
       IN  [S[On(k)] EXCEPT ![q.ptr] = {e \in MayMeet(q.ptr) : Performed(q, e) \in @}]
  ELSE S[IF Over(k) THEN Off(k) ELSE On(k)]
SettledBy(shared) ==
  LET Through(S, i) ==
        FoldRight(LAMBDA k, T : [T EXCEPT ![k] = Before(T, k, shared)], PlacesOf(i), S)
      From[i \in 1 .. Len(Feature) + 1] ==
        IF i > Len(Feature) THEN [k \in Positions |-> [p \in Pointer |-> {TestData[p]}]]
        ELSE The({Through(S, i) : S \in {From[i + 1]}})
  IN  From[1]
TspaSettles == The({SettledBy(shared) : shared \in {TspaOutlines["shared"]}})

TspaOutlineAt(mode, k) == TspaOutlines[mode][k]
TspaSettlesAt(k, p)    == TspaSettles[k][p]
=============================================================================

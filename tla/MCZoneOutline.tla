--------------------------- MODULE MCZoneOutline ---------------------------
(* The least outline of the feature, computed scenario by scenario.          *)
EXTENDS MCZoneFeature, ZoneOutline

Seqs == INSTANCE SequencesExt

(* The element of a singleton: TLC then has it before it goes on.            *)
The(S) == CHOOSE x \in S : x = x

Numbers == [i \in 1 .. Len(Feature) |-> i]
Last(i) == Len(Feature[i]) + 1

Writes == {WriteOf(StepAt(k)) :
             k \in {l \in Positions \ {End} : Stepping(l) /\ StepAt(l).do \in Writing}}
Puts(op, p) == {w \in Writes : w.op = op /\ w.ptr = p /\ p \in InDomain}
Bounds == Finds([p \in Pointer |-> {{}} \cup {s.schemes[p] : s \in Leftover}
                                     \cup {w.members : w \in Puts("put schemes", p)}],
                [p \in Pointer |-> {NoDid} \cup {s.dids[p] : s \in Leftover}
                                     \cup {w.did : w \in Puts("put did", p)}],
                {"none"}, Token, {NoResponse})

ForeseenIn(i, o) ==
  LET At[j \in 0 .. Last(i)] == CASE j = 0 -> o
                                  [] j = 1 -> Begun(o)
                                  [] OTHER -> StepMakes(Feature[i][j - 1], At[j - 1])
  IN  At
ForeseenNext(all, i) ==
  Append(all, The({ForeseenIn(i, o) :
    o \in {IF i = 1 THEN Bounds ELSE Ended(all[i - 1][Last(i - 1)])}}))
ForeseenAll == Seqs!FoldLeft(ForeseenNext, <<>>, Numbers)

TokensIn(i, t) ==
  LET At[j \in 0 .. Last(i)] ==
        CASE j = 0 -> t
          [] j = 1 -> [token |-> {"none"}, file |-> t.file]
          [] OTHER -> [token |-> TokenAfter(Feature[i][j - 1], At[j - 1]),
                       file  |-> FileAfter(Feature[i][j - 1], At[j - 1])]
  IN  At
Leaves(i, At) == {j \in 1 .. Last(i) : j = Last(i) \/ MayFail(Feature[i][j], At[j])}
TokensOff(i, At) == [token |-> {"none"}, file |-> UNION {At[j].file : j \in Leaves(i, At)}]
TokensNext(all, i) ==
  Append(all, The({TokensIn(i, t) :
    t \in {IF i = 1 THEN [token |-> {"none"}, file |-> Token] ELSE TokensOff(i - 1, all[i - 1])}}))
TokensAll == Seqs!FoldLeft(TokensNext, <<>>, Numbers)

ClearsIn(i, off) ==
  LET At[j \in 0 .. Last(i)] ==
        IF j = Last(i) THEN off
        ELSE IF j = 0 THEN At[1]
        ELSE (At[j + 1] \cup Deleted(Feature[i][j], TokensAll[i][j]))
               \cap (IF j \in Leaves(i, TokensAll[i]) THEN off ELSE Pointer)
  IN  At
ClearsBefore(i, all) ==
  <<The({ClearsIn(i, off) : off \in {IF i = Len(Feature) THEN {} ELSE all[1][0]}})>> \o all
ClearsAll == Seqs!FoldRight(ClearsBefore, Numbers, <<>>)

ForeseenAt(k) == IF k = End THEN Ended(ForeseenAll[Len(Feature)][Last(Len(Feature))])
                 ELSE ForeseenAll[k.scenario][k.step]
TokensAt(k)   == IF k = End THEN TokensOff(Len(Feature), TokensAll[Len(Feature)])
                 ELSE TokensAll[k.scenario][k.step]
ClearsAt(k)   == IF k = End THEN {} ELSE ClearsAll[k.scenario][k.step]
=============================================================================

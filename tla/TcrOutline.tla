----------------------------- MODULE TcrOutline -----------------------------
(***************************************************************************)
(* The outline of TspaOutline, continued through the features that ask the    *)
(* TCR: what a run that nobody disturbs may have in its context at each of     *)
(* its places.                                                             *)
(***************************************************************************)
EXTENDS TspaOutline, TcrFeature

CONSTANT Contexts(_, _)   \* the contexts there may be in an environment, at a place

ASSUME TcrPointersAssumption == {"alice", "bob"} \subseteq Pointer

(* Before the step s with the context c, in the environment e.               *)
IsGiven(s, c)      == Names(s.op) \subseteq DOMAIN c.given
IsRunnable(e, s, c) ==
  IsGiven(s, c) /\ c.client # "none" /\ Runner(c.client, e[c.client]) # "none"

(* What is asked, and what comes back when nothing is wrong.                 *)
ServerQuestion(s, c) == ServerAsks(s.op, c.given)
ClientQuestion(s, c) == ClientAsks(c.client, s.op, c.given)
Replies(e, s, c) == IF IsRunnable(e, s, c) THEN Expected(c.client, ClientQuestion(s, c)) ELSE {}
AnswerTo(q, o) == [status  |-> IF o.code = 0 THEN 200 ELSE 500,
                   message |-> IF q.op = "resolve" THEN "alice resolved" ELSE "other"]
ServerAnswers(s, c) ==
  {AnswerTo(ServerQuestion(s, c), o) : o \in Expected("server", ServerQuestion(s, c))}

IsSo(r, s, c) ==
  LET text == c.response_str
  IN  IF s.do = "matches" THEN text.kind = s.text
      ELSE CASE s.what = "response is valid"   -> text.kind = "resolved"
             [] s.what = "validation is valid" -> text.kind \in {"verified", "not verified"}
             [] s.what = "did is verified"     -> c.valid /\ text.kind = "verified"
             [] OTHER -> c.valid /\ Verdict(r)!Holds(s.what, text.response)

(* The contexts there may be after the step, when it passes, and when it may  *)
(* fail.                                                                   *)
Told(s, c, o, text) ==
  [c EXCEPT !.asked = ClientQuestion(s, c), !.outcome = o, !.response_str = text]
ContextMakes(e, s, c) ==
  CASE s.do = "installed"  -> {[c EXCEPT !.client = s.client]}
    [] s.do = "input"      -> {[c EXCEPT !.given = With(c.given, s.name, s.value)]}
    [] s.do = "ask server" -> IF IsGiven(s, c) THEN {[c EXCEPT !.asked = ServerQuestion(s, c)]}
                              ELSE {}
    [] s.do = "ask client" ->
         {Told(s, c, o, o.stdout) : o \in {x \in Replies(e, s, c) : x.code = 0}}
    [] s.do = "may fail"   ->
         {Told(s, c, o, IF o.code = 0 THEN o.stdout ELSE o.stderr) : o \in Replies(e, s, c)}
    [] s.do = "then" /\ s.what \in {"response is valid", "validation is valid"} ->
         {[c EXCEPT !.valid = TRUE]}
    [] OTHER               -> {c}
ContextFails(r, e, s, c) ==
  \/ s.do = "ask server" /\ ~IsGiven(s, c)
  \/ s.do = "ask client" /\ (~IsRunnable(e, s, c) \/ \E o \in Replies(e, s, c) : o.code # 0)
  \/ s.do = "may fail" /\ ~IsRunnable(e, s, c)
  \/ s.do \in {"then", "matches"} /\ ~IsSo(r, s, c)

(* A scenario may fail for want of a runner for its client.                  *)
Lacks(e, c) == c \in Clients /\ Runner(c, e[c]) = "none"

(* A run that was provisioned finds what the features are about.             *)
Provides(o) ==
  o.found["alice"] \subseteq {TestData["alice"]} /\ \A b \in o.found["bob"] : b.list = "none"

(* A step of the TCR's at k, with the context c.                             *)
LeadsAsking(r, e, k, c) ==
  LET s == StepAt(k)
      fails == ContextFails(r, e, s, c)
  IN  /\ ContextMakes(e, s, c) \subseteq Contexts(e, On(k))
      /\ fails => Lacks(e, Feature[k.scenario].of)
      /\ \A mode \in {"clean", "dirty"} :
           LET o == Outline(mode, k)
               answers == IF s.do # "ask server" THEN o.answer
                          ELSE IF IsGiven(s, c) THEN ServerAnswers(s, c) ELSE {}
           IN  /\ s.do \in {"ask server", "ask client", "may fail"} => Provides(o)
               /\ Includes(Outline(mode, On(k)), Finds(o.found, o.token, o.file, answers))
               /\ fails => Includes(Outline(mode, Off(k)), Skipped(o))

ASSUME ContextsAssumption ==
  \A e \in Environments, k \in Positions \ {End} :
    /\ k.step = 0 =>
         (IF "kind" \in DOMAIN Feature[k.scenario] THEN Defaults ELSE NoContext) \in Contexts(e, On(k))
    /\ Stepping(k) =>
         IF StepAt(k).do \in TspaSteps THEN Contexts(e, k) \subseteq Contexts(e, On(k))
         ELSE \A r \in Run, c \in Contexts(e, k) : LeadsAsking(r, e, k, c)

-----------------------------------------------------------------------------
(* The inductive invariant: a run that is not disturbed finds and has what      *)
(* the outlines say, and only the scenarios that may fail do.               *)
KeepsToBoth ==
  \A r \in Run : ~disturbed[r] =>
    /\ FitsAt(Mode(dirty[r]), r)
    /\ pc[r].step # 0 => context[r] \in Contexts(environment, pc[r])
    /\ \A c \in failed[r] : (dirty[r] /\ c \in {"03.1", "03.2"}) \/ Lacks(environment, c)

TcrOutlineInv == AtPositions /\ KeepsToBoth
=============================================================================

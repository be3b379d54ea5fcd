---------------------------- MODULE AlertsProofs ----------------------------
(***************************************************************************)
(* Proofs about the alert manager, for any rules, events and API calls:    *)
(* the types; for a store that answers inside the call the cooldown that   *)
(* survives every reload and restart, and the cached rules, which follow   *)
(* the table; and that no rule is skipped.                                 *)
(***************************************************************************)
EXTENDS Alerts, SequenceTheorems, TLAPS

USE AlertConstants

\* The inductive invariant of the types.
Base == TypeOK /\ NothingAhead

\* No answer of a SELECT waits to be applied.
NothingAnswered == \A c \in Calls : call[c].pc # "answered"

-----------------------------------------------------------------------------
(* Types.                                                                    *)

LEMMA NoRowType == NoRow \in Row /\ NoTable \in Tables /\ NoRow.firedAt = Nil
<1>1. NoTerms \in Terms
    BY DEF NoTerms, Terms, Config
<1> QED
    BY <1>1 DEF NoRow, Row, Moment, NoTable, Tables

LEMMA NewRowsType == \A x \in NewRows : x \in Row /\ x.there /\ x.firedAt = Nil
BY DEF NewRows, Row, Moment

\* An update keeps the time at which the rule has fired.
LEMMA UpdatesType ==
    ASSUME NEW x \in Row, NEW y \in Updates(x)
    PROVE  y \in Row /\ y.there /\ y.firedAt = x.firedAt
<1>1. x.terms \in Terms /\ y.terms \in Changes(x.terms)
    BY DEF Row, Updates
<1>2. Changes(x.terms) \subseteq Terms
    BY <1>1 DEF Changes, Terms
<1> QED
    BY <1>1, <1>2 DEF Updates, Row

LEMMA InitBase == Init => Base
<1> SUFFICES ASSUME Init PROVE Base
    OBVIOUS
<1>1. NoRow \in Row /\ NoTable \in Tables
    BY NoRowType
<1>2. row \in Tables /\ \A r \in Rules : row[r].firedAt = Nil /\ (~row[r].there => row[r] = NoRow)
    BY <1>1, NoRowType, NewRowsType DEF Init, Tables
<1>3. Idle \in Handler /\ Idle.pc = "idle"
    BY <1>1 DEF Idle, Handler, Moment
<1>4. fired \in Seq(Alert)
    BY DEF Init
<1>5. [pc |-> "idle", rows |-> NoTable] \in Call
    BY <1>1 DEF Call
<1>6. TypeOK
    BY <1>1, <1>2, <1>3, <1>4, <1>5 DEF Init, TypeOK, Moment
<1>7. NothingAhead
    BY <1>2, <1>3 DEF Init, NothingAhead, Firing
<1> QED
    BY <1>6, <1>7 DEF Base

\* What a walk leaves behind: it is over, or it fires a rule now.
LEMMA WalkStep ==
    ASSUME TypeOK, NEW e \in Events, NEW list \in Tables, NEW left \in SUBSET Rules,
           NEW entries, Walk(e, list, left, entries)
    PROVE  /\ fired' \in Seq(Alert)
           /\ \E h \in Handler :
                 /\ handler' = [handler EXCEPT ![e] = h]
                 /\ \/ h.pc = "done"
                    \/ h.pc = "delivering" /\ h.rule \in left /\ h.firedAt = now
<1> DEFINE hits == {r \in left : Fires(r, e, list, entries)}
<1>1. CASE hits = {}
    <2> DEFINE h == [Idle EXCEPT !.pc = "done"]
    <2>1. NoTable \in Tables
        BY NoRowType
    <2>2. h \in Handler /\ h.pc = "done"
        BY <2>1 DEF Idle, Handler, Moment
    <2> QED
        BY <1>1, <2>2 DEF Walk, TypeOK
<1>2. CASE hits # {}
    <2>1. PICK r \in hits :
             /\ handler' = [handler EXCEPT ![e] =
                   [pc |-> "delivering", list |-> list, rule |-> r, firedAt |-> now]]
             /\ fired' = Append(fired, [rule |-> r, event |-> e, at |-> now])
        BY <1>2 DEF Walk
    <2> DEFINE h == [pc |-> "delivering", list |-> list, rule |-> r, firedAt |-> now]
    <2>2. h \in Handler
        BY DEF Handler, TypeOK, Moment
    <2>3. [rule |-> r, event |-> e, at |-> now] \in Alert
        BY DEF Alert, TypeOK
    <2>4. fired' \in Seq(Alert)
        BY <2>1, <2>3 DEF TypeOK
    <2> QED
        BY <2>1, <2>2, <2>4
<1> QED
    BY <1>1, <1>2

\* The handler of e takes a new value that is typed and not ahead; the tables of
\* rules stay as they are.
LEMMA HandlerStep ==
    ASSUME Base, NEW e \in Events, NEW h \in Handler,
           handler' = [handler EXCEPT ![e] = h],
           h.pc \in {"delivering", "recording", "touching", "touched", "hung"} =>
               h.rule \in Rules /\ h.firedAt \in Nat /\ h.firedAt <= now,
           UNCHANGED <<now, row>>
    PROVE  handler' \in [Events -> Handler] /\ NothingAhead'
BY DEF Base, TypeOK, NothingAhead, Firing

\* Moving on keeps the rule and its time.
LEMMA Onwards ==
    ASSUME Base, NEW e \in Events, Firing(e), UNCHANGED now,
           NEW pc \in {"recording", "touching", "touched", "hung"}, Goto(e, pc)
    PROVE  \E h \in Handler :
              /\ handler' = [handler EXCEPT ![e] = h]
              /\ h.pc = pc /\ h.rule = handler[e].rule /\ h.firedAt = handler[e].firedAt
              /\ h.rule \in Rules /\ h.firedAt \in Nat /\ h.firedAt <= now
<1> DEFINE h == [handler[e] EXCEPT !.pc = pc]
<1>1. handler[e] \in Handler
    BY DEF Base, TypeOK
<1>2. h \in Handler /\ h.pc = pc /\ h.rule = handler[e].rule /\ h.firedAt = handler[e].firedAt
    BY <1>1 DEF Handler
<1>3. handler[e].rule \in Rules /\ handler[e].firedAt \in Nat /\ handler[e].firedAt <= now
    BY DEF Base, NothingAhead
<1>4. handler' = [handler EXCEPT ![e] = h]
    BY DEF Goto
<1> HIDE DEF h
<1> QED
    BY <1>2, <1>3, <1>4

LEMMA HandleBase ==
    ASSUME Base, NEW e \in Events, Handle(e)
    PROVE  Base'
<1>1. CASE HandleEvent(e)
    <2>1. rules \in Tables
        BY DEF Base, TypeOK
    <2>2. Walk(e, rules, Rules, cache) /\ UNCHANGED <<now, row, created, recorded, rules, cache, call, failures, crashes>>
        BY <1>1 DEF HandleEvent
    <2>3. PICK h \in Handler :
             /\ handler' = [handler EXCEPT ![e] = h]
             /\ h.pc = "done" \/ (h.pc = "delivering" /\ h.rule \in Rules /\ h.firedAt = now)
        BY <2>1, <2>2, WalkStep DEF Base
    <2>4. fired' \in Seq(Alert)
        BY <2>1, <2>2, WalkStep DEF Base
    <2>5. h.pc # "done" => h.rule \in Rules /\ h.firedAt \in Nat /\ h.firedAt <= now
        BY <2>3 DEF Base, TypeOK
    <2>6. handler' \in [Events -> Handler] /\ NothingAhead'
        BY <2>2, <2>3, <2>5, HandlerStep
    <2> QED
        BY <2>2, <2>4, <2>6 DEF Base, TypeOK
<1>2. CASE WebhookSettles(e)
    <2>1. Firing(e) /\ Goto(e, "recording") /\ UNCHANGED <<now, row, created, recorded, rules, cache, call, fired, failures, crashes>>
        BY <1>2 DEF WebhookSettles, At, Firing
    <2>2. handler' \in [Events -> Handler] /\ NothingAhead'
        BY <2>1, Onwards, HandlerStep
    <2> QED
        BY <2>1, <2>2 DEF Base, TypeOK
<1>3. CASE WebhookBreaksOff(e)
    <2>1. Firing(e) /\ Goto(e, "hung") /\ UNCHANGED <<now, row, created, recorded, rules, cache, call, fired, failures, crashes>>
        BY <1>3 DEF WebhookBreaksOff, At, Firing
    <2>2. handler' \in [Events -> Handler] /\ NothingAhead'
        BY <2>1, Onwards, HandlerStep
    <2> QED
        BY <2>1, <2>2 DEF Base, TypeOK
<1>4. CASE RecordHistory(e)
    <2>1. Firing(e) /\ Goto(e, "touching") /\ UNCHANGED <<now, row, created, rules, cache, call, fired, crashes>>
        BY <1>4 DEF RecordHistory, At, Firing
    <2>2. handler' \in [Events -> Handler] /\ NothingAhead'
        BY <2>1, Onwards, HandlerStep
    <2>3. handler[e].rule \in Rules
        BY <2>1 DEF Base, NothingAhead
    <2>4. recorded' \in SUBSET (Rules \X Events) /\ failures' \in Nat
        BY <1>4, <2>3 DEF RecordHistory, Base, TypeOK
    <2> QED
        BY <2>1, <2>2, <2>4 DEF Base, TypeOK
<1>5. CASE Touch(e)
    <2> DEFINE r == handler[e].rule
    <2>1. Firing(e) /\ Goto(e, "touched") /\ UNCHANGED <<now, created, recorded, rules, cache, call, fired, crashes>>
        BY <1>5 DEF Touch, At, Firing
    <2>2. PICK h \in Handler :
              /\ handler' = [handler EXCEPT ![e] = h]
              /\ h.rule \in Rules /\ h.firedAt \in Nat /\ h.firedAt <= now
        BY <2>1, Onwards
    <2>3. r \in Rules /\ handler[e].firedAt \in Nat /\ handler[e].firedAt <= now
        BY <2>1 DEF Base, NothingAhead
    <2>4. failures' \in Nat
        BY <1>5 DEF Touch, Base, TypeOK
    <2>5. row' = row \/ (row[r].there /\ row' = [row EXCEPT ![r].firedAt = handler[e].firedAt])
        BY <1>5 DEF Touch
    <2>6. row[r] \in Row /\ row \in [Rules -> Row]
        BY <2>3 DEF Base, TypeOK, Tables
    <2>7. row[r].there => [row[r] EXCEPT !.firedAt = handler[e].firedAt] \in Row
        BY <2>3, <2>6 DEF Row, Moment
    <2>8. row' \in Tables
        BY <2>5, <2>6, <2>7 DEF Tables
    <2>9. \A q \in Rules : \/ row'[q] = row[q]
                           \/ row'[q].there /\ row'[q].firedAt \in Nat /\ row'[q].firedAt <= now
        BY <2>3, <2>5, <2>6 DEF Row
    <2>10. handler' \in [Events -> Handler]
        BY <2>2 DEF Base, TypeOK
    <2>11. \A q \in Rules : ~row'[q].there => row'[q] = NoRow
        BY <2>9 DEF Base, TypeOK
    <2>12. TypeOK'
        BY <2>1, <2>4, <2>8, <2>10, <2>11 DEF Base, TypeOK
    <2>13. NothingAhead'
        BY <2>1, <2>2, <2>9 DEF Base, TypeOK, NothingAhead, Firing
    <2> QED
        BY <2>12, <2>13 DEF Base
<1>6. CASE Finish(e)
    <2> DEFINE g == handler[e]
               left == {r \in Rules : r < g.rule}
    <2>1. Walk(e, g.list, left, cache') /\ UNCHANGED <<now, row, created, recorded, rules, call, failures, crashes>>
        BY <1>6 DEF Finish
    <2>2. g.list \in Tables /\ left \in SUBSET Rules
        BY DEF Base, TypeOK, Handler
    <2>3. PICK h \in Handler :
             /\ handler' = [handler EXCEPT ![e] = h]
             /\ h.pc = "done" \/ (h.pc = "delivering" /\ h.rule \in left /\ h.firedAt = now)
        BY <2>1, <2>2, WalkStep DEF Base
    <2>4. fired' \in Seq(Alert)
        BY <2>1, <2>2, WalkStep DEF Base
    <2>5. h.pc # "done" => h.rule \in Rules /\ h.firedAt \in Nat /\ h.firedAt <= now
        BY <2>3 DEF Base, TypeOK
    <2>6. handler' \in [Events -> Handler] /\ NothingAhead'
        BY <2>1, <2>3, <2>5, HandlerStep
    <2>7. cache' \in [Rules -> Moment]
        BY <1>6 DEF Finish, Base, TypeOK, Moment
    <2> QED
        BY <2>1, <2>4, <2>6, <2>7 DEF Base, TypeOK
<1> QED
    BY <1>1, <1>2, <1>3, <1>4, <1>5, <1>6 DEF Handle

\* The API changes the table and the cached rules; a new or changed row has a time
\* the table knew before, or none.
LEMMA TableStep ==
    ASSUME Base, NEW r \in Rules, NEW x \in Row, row' = [row EXCEPT ![r] = x],
           x.firedAt = Nil \/ (x.firedAt \in Nat /\ x.firedAt <= now),
           x.there \/ x = NoRow, UNCHANGED <<now, handler>>
    PROVE  /\ row' \in Tables /\ NothingAhead'
           /\ \A q \in Rules : ~row'[q].there => row'[q] = NoRow
<1>1. row' \in Tables
    BY DEF Base, TypeOK, Tables
<1>2. \A q \in Rules : row'[q] = IF q = r THEN x ELSE row[q]
    BY DEF Base, TypeOK, Tables
<1>3. x.there => x # NoRow
    BY DEF NoRow
<1> QED
    BY <1>1, <1>2 DEF Base, TypeOK, NothingAhead, Firing

LEMMA LoadedTyped ==
    ASSUME TypeOK, NEW rows \in Tables, Loaded(rows)
    PROVE  rules' \in Tables /\ cache' \in [Rules -> Moment]
BY DEF Loaded, TypeOK, Tables, Row, Moment

LEMMA AdministerBase ==
    ASSUME Base, NEW c \in Calls, Administer(c)
    PROVE  Base'
<1>1. \A k \in Calls : call[k] \in Call
    BY DEF Base, TypeOK
<1>2. ASSUME NEW r \in Rules, CreateRule(c, r) PROVE Base'
    <2>1. PICK x \in NewRows : row' = [row EXCEPT ![r] = x]
        BY <1>2 DEF CreateRule
    <2>2. x \in Row /\ x.there /\ x.firedAt = Nil
        BY NewRowsType
    <2>3. call' \in [Calls -> Call]
        BY <1>1, <1>2 DEF CreateRule, Ask, Call, Base, TypeOK
    <2>4. created' \subseteq Rules
        BY <1>2 DEF CreateRule, Base, TypeOK
    <2>5. row' \in Tables /\ NothingAhead' /\ \A q \in Rules : ~row'[q].there => row'[q] = NoRow
        BY <1>2, <2>1, <2>2, TableStep DEF CreateRule
    <2> QED
        BY <1>2, <2>3, <2>4, <2>5 DEF CreateRule, Base, TypeOK
<1>3. ASSUME NEW r \in Rules, UpdateRule(c, r) PROVE Base'
    <2>1. PICK x \in Updates(row[r]) : row' = [row EXCEPT ![r] = x]
        BY <1>3 DEF UpdateRule
    <2>2. row[r] \in Row /\ row[r].there
        BY <1>3 DEF UpdateRule, Base, TypeOK, Tables
    <2>3. x \in Row /\ x.there /\ x.firedAt = row[r].firedAt
        BY <2>2, UpdatesType
    <2>4. x.firedAt = Nil \/ (x.firedAt \in Nat /\ x.firedAt <= now)
        BY <2>2, <2>3 DEF Row, Moment, Base, NothingAhead
    <2>5. call' \in [Calls -> Call]
        BY <1>1, <1>3 DEF UpdateRule, Ask, Call, Base, TypeOK
    <2>7. row' \in Tables /\ NothingAhead' /\ \A q \in Rules : ~row'[q].there => row'[q] = NoRow
        BY <1>3, <2>1, <2>3, <2>4, TableStep DEF UpdateRule
    <2> QED
        BY <1>3, <2>5, <2>7 DEF UpdateRule, Base, TypeOK
<1>4. ASSUME NEW r \in Rules, DeleteRule(c, r) PROVE Base'
    <2>1. NoRow \in Row /\ NoRow.firedAt = Nil
        BY NoRowType
    <2>2. call' \in [Calls -> Call]
        BY <1>1, <1>4 DEF DeleteRule, Ask, Call, Base, TypeOK
    <2>3. row' \in Tables /\ NothingAhead' /\ \A q \in Rules : ~row'[q].there => row'[q] = NoRow
        BY <1>4, <2>1, TableStep DEF DeleteRule
    <2> QED
        BY <1>4, <2>2, <2>3 DEF DeleteRule, Base, TypeOK
<1>5. CASE Select(c)
    <2>1. call' \in [Calls -> Call]
        <3>1. row \in Tables /\ call \in [Calls -> Call]
            BY DEF Base, TypeOK
        <3>2. [call[c] EXCEPT !.pc = "done"] \in Call
            BY <1>1 DEF Call
        <3>3. [pc |-> "answered", rows |-> row] \in Call
            BY <3>1 DEF Call
        <3>4. \/ call' = [call EXCEPT ![c] = [call[c] EXCEPT !.pc = "done"]]
              \/ call' = [call EXCEPT ![c] = [pc |-> "answered", rows |-> row]]
            BY <1>5 DEF Select
        <3> QED
            BY <3>1, <3>2, <3>3, <3>4
    <2>2. rules' \in Tables /\ cache' \in [Rules -> Moment]
        BY <1>5, LoadedTyped DEF Select, Base, TypeOK
    <2> QED
        BY <1>5, <2>1, <2>2 DEF Select, Base, TypeOK, NothingAhead, Firing
<1>6. CASE Apply(c)
    <2>1. NoTable \in Tables
        BY NoRowType
    <2>2. call' \in [Calls -> Call]
        BY <1>1, <1>6, <2>1 DEF Apply, Call, Base, TypeOK
    <2>3. call[c].rows \in Tables
        BY <1>1 DEF Call
    <2>4. rules' \in Tables /\ cache' \in [Rules -> Moment]
        BY <1>6, <2>3, LoadedTyped DEF Apply, Base
    <2> QED
        BY <1>6, <2>2, <2>4 DEF Apply, Base, TypeOK, NothingAhead, Firing
<1>7. CASE SelectFails(c)
    <2>1. [call[c] EXCEPT !.pc = "failed"] \in Call
        BY <1>1 DEF Call
    <2>2. call' = [call EXCEPT ![c] = [call[c] EXCEPT !.pc = "failed"]]
        BY <1>7 DEF SelectFails
    <2>3. call' \in [Calls -> Call]
        BY <2>1, <2>2 DEF Base, TypeOK
    <2>4. failures' \in Nat
        BY <1>7 DEF SelectFails, Base, TypeOK
    <2> QED
        BY <1>7, <2>3, <2>4 DEF SelectFails, Base, TypeOK, NothingAhead, Firing
<1> QED
    BY <1>2, <1>3, <1>4, <1>5, <1>6, <1>7 DEF Administer

LEMMA RestartBase ==
    ASSUME Base, Restart
    PROVE  Base'
<1>1. NoTable \in Tables
    BY NoRowType
<1>2. [Idle EXCEPT !.pc = "lost"] \in Handler /\ [Idle EXCEPT !.pc = "lost"].pc = "lost"
    BY <1>1 DEF Idle, Handler, Moment
<1>3. /\ handler' \in [Events -> Handler]
      /\ \A e \in Events : handler'[e].pc \in {"idle", "done", "lost"}
    BY <1>2 DEF Restart, Base, TypeOK
<1>4. [pc |-> "done", rows |-> NoTable] \in Call
    BY <1>1 DEF Call
<1>5. call' \in [Calls -> Call]
    BY <1>4 DEF Restart, Base, TypeOK
<1>6. cache' \in [Rules -> Moment]
    BY DEF Restart, Base, TypeOK, Tables, Row
<1>7. NothingAhead'
    <2>1. \A e \in Events : ~(handler'[e].pc \in {"delivering", "recording", "touching", "touched", "hung"})
        BY <1>3
    <2> QED
        BY <2>1 DEF Restart, Base, NothingAhead, Firing
<1>8. crashes' \in Nat /\ rules' = row /\ UNCHANGED <<now, row, created, recorded, fired, failures>>
    BY DEF Restart, Base, TypeOK
<1>9. TypeOK'
    BY <1>3, <1>5, <1>6, <1>8 DEF Base, TypeOK
<1> QED
    BY <1>7, <1>9 DEF Base

\* Every step keeps the types.
LEMMA StepBase == Base /\ [Next]_vars => Base'
<1> SUFFICES ASSUME Base, [Next]_vars PROVE Base'
    OBVIOUS
<1>1. CASE \E e \in Events : Handle(e)
    BY <1>1, HandleBase
<1>2. CASE \E c \in Calls : Administer(c)
    BY <1>2, AdministerBase
<1>3. CASE Restart
    BY <1>3, RestartBase
<1>4. CASE Tick
    <2>1. now \in Nat /\ now' = now + 1 /\ UNCHANGED <<row, created, recorded, rules, cache, handler, call, fired, failures, crashes>>
        BY <1>4 DEF Tick, Base, TypeOK
    <2>2. TypeOK'
        BY <2>1 DEF Base, TypeOK
    <2>3. \A r \in Rules : row[r].firedAt # Nil => row[r].firedAt \in Nat
        BY DEF Base, TypeOK, Tables, Row, Moment
    <2>4. NothingAhead'
        BY <2>1, <2>3 DEF Base, NothingAhead, Firing
    <2> QED
        BY <2>2, <2>4 DEF Base
<1>5. CASE UNCHANGED vars
    BY <1>5 DEF vars, Base, TypeOK, NothingAhead, Firing
<1> QED
    BY <1>1, <1>2, <1>3, <1>4, <1>5 DEF Next

\* Types, and no time that is yet to come, in every reachable state.
THEOREM BaseAlways == Spec => []Base
BY InitBase, StepBase, PTL DEF Spec

\* Every variable has its type and a rule that is gone leaves nothing behind in its
\* row, whatever walks and calls overlap.
THEOREM AlertsTyped == Spec => []TypeOK
<1>1. Base => TypeOK
    BY DEF Base
<1> QED
    BY <1>1, BaseAlways, PTL

-----------------------------------------------------------------------------
(* The cooldown, with a store that answers inside the call.                  *)

CooldownBase == Base /\ NothingAnswered /\ CacheCoversTable

LEMMA InitCovers == Init => NothingAnswered /\ CacheCoversTable
<1> SUFFICES ASSUME Init PROVE NothingAnswered /\ CacheCoversTable
    OBVIOUS
<1>1. \A r \in Rules : row[r].firedAt = Nil
    BY NoRowType, NewRowsType DEF Init
<1> QED
    BY <1>1 DEF Init, NothingAnswered, CacheCoversTable

\* The alert of e moves without ending: table and cache stay, or e is ending.
LEMMA WalkCovers ==
    ASSUME CooldownBase, NEW e \in Events, Handle(e)
    PROVE  CacheCoversTable'
<1>1. handler \in [Events -> Handler] /\ row \in [Rules -> Row] /\ cache \in [Rules -> Moment] /\ now \in Nat
    BY DEF CooldownBase, Base, TypeOK, Tables
<1>2. CASE HandleEvent(e)
    <2>1. Walk(e, rules, Rules, cache) /\ rules \in Tables /\ At(e, "idle") /\ UNCHANGED <<row, cache>>
        BY <1>2 DEF HandleEvent, CooldownBase, Base, TypeOK
    <2>2. PICK h \in Handler : handler' = [handler EXCEPT ![e] = h]
        BY <2>1, WalkStep DEF CooldownBase, Base
    <2>3. \A r \in Rules : Ending(r) => Ending(r)'
        BY <1>1, <2>1, <2>2 DEF Ending, At
    <2> QED
        BY <2>1, <2>3 DEF CooldownBase, CacheCoversTable
<1>3. CASE WebhookSettles(e) \/ WebhookBreaksOff(e) \/ RecordHistory(e)
    <2>1. UNCHANGED <<row, cache>> /\ ~At(e, "touched")
          /\ \E pc \in {"recording", "hung", "touching"} : Goto(e, pc)
        BY <1>3 DEF WebhookSettles, WebhookBreaksOff, RecordHistory, At
    <2>2. \A r \in Rules : Ending(r) => Ending(r)'
        BY <1>1, <2>1 DEF Ending, At, Goto
    <2> QED
        BY <2>1, <2>2 DEF CooldownBase, CacheCoversTable
<1>4. CASE Touch(e)
    <2>1. UNCHANGED cache /\ ~At(e, "touched") /\ Goto(e, "touched") /\ Firing(e)
        BY <1>4 DEF Touch, At, Firing
    <2>2. PICK t \in Rules : t = handler[e].rule
        BY <2>1 DEF CooldownBase, Base, NothingAhead
    <2>3. \A r \in Rules : r # t => row'[r] = row[r]
        BY <1>1, <1>4, <2>2 DEF Touch
    <2>4. PICK h \in Handler : handler' = [handler EXCEPT ![e] = h] /\ h.pc = "touched" /\ h.rule = t
        BY <1>4, <2>1, <2>2, Onwards DEF CooldownBase, Touch
    <2>5. Ending(t)'
        BY <1>1, <2>4 DEF Ending, At
    <2>6. \A r \in Rules : Ending(r) => Ending(r)'
        BY <1>1, <2>1, <2>4 DEF Ending, At
    <2> QED
        BY <2>1, <2>3, <2>5, <2>6 DEF CooldownBase, CacheCoversTable
<1>5. CASE Finish(e)
    <2> DEFINE t == handler[e].rule
    <2>1. At(e, "touched") /\ cache' = [cache EXCEPT ![t] = now] /\ UNCHANGED row
          /\ Walk(e, handler[e].list, {r \in Rules : r < t}, cache')
        BY <1>5 DEF Finish
    <2>2. handler[e].list \in Tables
        BY <1>1 DEF Handler
    <2>3. PICK h \in Handler : handler' = [handler EXCEPT ![e] = h]
        BY <2>1, <2>2, WalkStep DEF CooldownBase, Base
    <2>4. \A r \in Rules : Ending(r) => Ending(r)' \/ r = t
        BY <1>1, <2>1, <2>3 DEF Ending, At
    <2>5. t \in Rules => row[t].firedAt = Nil \/ row[t].firedAt <= now
        BY DEF CooldownBase, Base, NothingAhead
    <2>6. now # Nil /\ \A r \in Rules : cache'[r] = IF r = t THEN now ELSE cache[r]
        BY <1>1, <2>1
    <2> QED
        BY <2>1, <2>4, <2>5, <2>6 DEF CooldownBase, CacheCoversTable
<1> QED
    BY <1>2, <1>3, <1>4, <1>5 DEF Handle

\* Once the table is loaded, no entry is older than its row.
LEMMA LoadedCovers ==
    ASSUME TypeOK, Loaded(row), UNCHANGED row
    PROVE  CacheCoversTable'
<1>1. \A r \in Rules : row[r].firedAt # Nil => cache'[r] = row[r].firedAt /\ row[r].firedAt \in Nat
    BY DEF TypeOK, Loaded, Tables, Row, Moment
<1> QED
    BY <1>1 DEF CacheCoversTable

LEMMA CallCovers ==
    ASSUME CooldownBase, ~Pooled, NEW c \in Calls, Administer(c)
    PROVE  NothingAnswered' /\ CacheCoversTable'
<1>1. row \in [Rules -> Row] /\ call \in [Calls -> Call]
    BY DEF CooldownBase, Base, TypeOK, Tables
<1>2. ASSUME NEW r \in Rules, CreateRule(c, r) \/ UpdateRule(c, r) \/ DeleteRule(c, r)
      PROVE  NothingAnswered' /\ CacheCoversTable'
    <2>1. UNCHANGED <<cache, handler>> /\ Ask(c)
        BY <1>2 DEF CreateRule, UpdateRule, DeleteRule
    <2>2. \A q \in Rules : row'[q].firedAt = row[q].firedAt \/ row'[q].firedAt = Nil
        <3>1. CASE CreateRule(c, r)
            BY <1>1, <3>1, NewRowsType DEF CreateRule
        <3>2. CASE UpdateRule(c, r)
            BY <1>1, <3>2, UpdatesType DEF UpdateRule
        <3>3. CASE DeleteRule(c, r)
            BY <1>1, <3>3 DEF DeleteRule, NoRow
        <3> QED
            BY <1>2, <3>1, <3>2, <3>3
    <2>3. \A k \in Calls : call'[k].pc = call[k].pc \/ call'[k].pc = "reloading"
        BY <1>1, <2>1 DEF Ask, Call
    <2> QED
        BY <2>1, <2>2, <2>3 DEF CooldownBase, NothingAnswered, CacheCoversTable, Ending, At
<1>3. CASE Select(c)
    <2>1. Loaded(row) /\ UNCHANGED row /\ call' = [call EXCEPT ![c].pc = "done"]
        BY <1>3 DEF Select
    <2>2. \A k \in Calls : call'[k].pc = call[k].pc \/ call'[k].pc = "done"
        BY <1>1, <2>1 DEF Call
    <2> QED
        BY <2>1, <2>2, LoadedCovers DEF CooldownBase, Base, NothingAnswered
<1>4. ~Apply(c)
    BY DEF Apply, CooldownBase, NothingAnswered
<1>5. CASE SelectFails(c)
    <2>1. \A k \in Calls : call'[k].pc = call[k].pc \/ call'[k].pc = "failed"
        BY <1>1, <1>5 DEF SelectFails, Call
    <2> QED
        BY <1>5, <2>1 DEF SelectFails, CooldownBase, NothingAnswered, CacheCoversTable, Ending, At
<1> QED
    BY <1>2, <1>3, <1>4, <1>5 DEF Administer

LEMMA StepCovers == ~Pooled => (CooldownBase /\ [Next]_vars => CooldownBase')
<1> SUFFICES ASSUME ~Pooled, CooldownBase, [Next]_vars PROVE CooldownBase'
    OBVIOUS
<1>1. Base'
    BY StepBase DEF CooldownBase
<1>2. CASE \E e \in Events : Handle(e)
    <2>1. UNCHANGED call
        BY <1>2 DEF Handle, HandleEvent, WebhookSettles, WebhookBreaksOff, RecordHistory, Touch, Finish
    <2> QED
        BY <1>1, <1>2, <2>1, WalkCovers DEF CooldownBase, NothingAnswered
<1>3. CASE \E c \in Calls : Administer(c)
    BY <1>1, <1>3, CallCovers DEF CooldownBase
<1>4. CASE Restart
    <2>1. \A r \in Rules : row[r].firedAt # Nil => row[r].firedAt \in Nat
        BY DEF CooldownBase, Base, TypeOK, Tables, Row, Moment
    <2>2. UNCHANGED row /\ \A r \in Rules : cache'[r] = row[r].firedAt
        BY <1>4 DEF Restart
    <2>3. CacheCoversTable'
        BY <2>1, <2>2 DEF CacheCoversTable
    <2>4. \A c \in Calls : call'[c].pc \in {"idle", "done"}
        BY <1>4 DEF Restart
    <2> QED
        BY <1>1, <2>3, <2>4 DEF CooldownBase, NothingAnswered
<1>5. CASE Tick \/ UNCHANGED vars
    <2>1. UNCHANGED <<row, cache, handler, call>>
        BY <1>5 DEF Tick, vars
    <2> QED
        BY <1>1, <2>1 DEF CooldownBase, NothingAnswered, CacheCoversTable, Ending, At
<1> QED
    BY <1>2, <1>3, <1>4, <1>5 DEF Next

THEOREM CooldownAlways == ~Pooled => (Spec => []CooldownBase)
<1> SUFFICES ASSUME ~Pooled PROVE Spec => []CooldownBase
    OBVIOUS
<1>1. Init => CooldownBase
    BY InitBase, InitCovers DEF CooldownBase
<1>2. CooldownBase /\ [Next]_vars => CooldownBase'
    BY StepCovers
<1> QED
    BY <1>1, <1>2, PTL DEF Spec

\* With a store that answers inside the call, neither a reload nor a restart
\* forgets a cooldown the table remembers.
THEOREM CacheCovers == ~Pooled => (Spec => []CacheCoversTable)
<1> SUFFICES ASSUME ~Pooled PROVE Spec => []CacheCoversTable
    OBVIOUS
<1>1. CooldownBase => CacheCoversTable
    BY DEF CooldownBase
<1>2. Spec => []CooldownBase
    BY CooldownAlways
<1> QED
    BY <1>1, <1>2, PTL

\* A rule that a walk picks is out of its cooldown by the cache.
LEMMA Picked ==
    ASSUME TypeOK, NEW e \in Events, NEW list \in Tables, NEW left \in SUBSET Rules,
           NEW entries \in [Rules -> Moment], Walk(e, list, left, entries), Begins
    PROVE  LET r == fired'[Len(fired')].rule
           IN  /\ handler'[e].list = list
               /\ r \in left /\ fired'[Len(fired')].event = e
               /\ entries[r] # Nil => now >= entries[r] + list[r].terms.cooldown
<1>1. fired \in Seq(Alert) /\ now \in Nat /\ handler \in [Events -> Handler]
    BY DEF TypeOK
<1>2. PICK r \in left :
         /\ Fires(r, e, list, entries)
         /\ handler' = [handler EXCEPT ![e] =
               [pc |-> "delivering", list |-> list, rule |-> r, firedAt |-> now]]
         /\ fired' = Append(fired, [rule |-> r, event |-> e, at |-> now])
    <2> DEFINE hits == {r \in left : Fires(r, e, list, entries)}
    <2>1. fired' # fired
        BY <1>1 DEF Begins
    <2>2. \E r \in hits :
             /\ handler' = [handler EXCEPT ![e] =
                   [pc |-> "delivering", list |-> list, rule |-> r, firedAt |-> now]]
             /\ fired' = Append(fired, [rule |-> r, event |-> e, at |-> now])
        BY <2>1 DEF Walk
    <2> QED
        BY <2>2
<1> DEFINE alert == [rule |-> r, event |-> e, at |-> now]
<1>3. alert \in Alert /\ alert.rule = r /\ alert.event = e
    BY <1>1 DEF Alert
<1> HIDE DEF alert
<1>4. fired' = Append(fired, alert)
    BY <1>2 DEF alert
<1>5. fired'[Len(fired')] = alert
    BY <1>1, <1>3, <1>4
<1>6. handler'[e].list = list
    BY <1>1, <1>2
<1>7. entries[r] # Nil => now >= entries[r] + list[r].terms.cooldown
    <2>1. ~InCooldown(r, list, entries)
        BY <1>2 DEF Fires
    <2>2. entries[r] \in Moment /\ list[r].terms.cooldown \in Nat
        BY DEF Tables, Row, Terms
    <2> QED
        BY <1>1, <2>1, <2>2 DEF InCooldown, Moment
<1> QED
    BY <1>3, <1>5, <1>6, <1>7

LEMMA StepCooldown ==
    ASSUME CooldownBase, [Next]_vars, Begins
    PROVE  LET alert == fired'[Len(fired')]
               r == alert.rule
           IN  \/ row[r].firedAt = Nil \/ Ending(r)
               \/ now >= row[r].firedAt + handler'[alert.event].list[r].terms.cooldown
<1>1. /\ fired \in Seq(Alert) /\ now \in Nat /\ rules \in Tables /\ handler \in [Events -> Handler]
      /\ cache \in [Rules -> Moment] /\ row \in [Rules -> Row]
    BY DEF CooldownBase, Base, TypeOK, Tables
<1>2. PICK e \in Events : HandleEvent(e) \/ Finish(e)
    <2>1. fired' # fired
        BY DEF Begins
    <2> QED
        BY <2>1 DEF Next, vars, Handle, Administer, WebhookSettles, WebhookBreaksOff, RecordHistory, Touch,
                    CreateRule, UpdateRule, DeleteRule, Select, Apply, SelectFails, Restart, Tick
<1> DEFINE alert == fired'[Len(fired')]
           r == alert.rule
           wait == handler'[alert.event].list[r].terms.cooldown
<1>3. r \in Rules /\ wait \in Nat /\ (cache[r] # Nil => now >= cache[r] + wait)
    <2>1. CASE HandleEvent(e)
        <3>1. Walk(e, rules, Rules, cache)
            BY <2>1 DEF HandleEvent
        <3>2. /\ handler'[e].list = rules /\ alert.event = e
              /\ r \in Rules /\ (cache[r] # Nil => now >= cache[r] + rules[r].terms.cooldown)
            BY <1>1, <3>1, Picked DEF CooldownBase, Base
        <3>3. rules[r].terms.cooldown \in Nat
            BY <1>1, <3>2 DEF Tables, Row, Terms
        <3> QED
            BY <3>2, <3>3
    <2>2. CASE Finish(e)
        <3> DEFINE t == handler[e].rule
                   left == {q \in Rules : q < t}
                   list == handler[e].list
        <3>1. Walk(e, list, left, cache') /\ cache' = [cache EXCEPT ![t] = now]
            BY <2>2 DEF Finish
        <3>2. list \in Tables /\ left \in SUBSET Rules
            BY <1>1 DEF Handler
        <3>3. cache' \in [Rules -> Moment]
            BY <1>1, <3>1 DEF Moment
        <3>4. /\ handler'[e].list = list /\ alert.event = e
              /\ r \in left /\ (cache'[r] # Nil => now >= cache'[r] + list[r].terms.cooldown)
            BY <3>1, <3>2, <3>3, Picked DEF CooldownBase, Base
        <3>5. r # t
            <4>1. r \in Nat /\ r < t
                BY <3>4
            <4> HIDE DEF r, t
            <4> QED
                BY <4>1
        <3>6. cache'[r] = cache[r]
            BY <1>1, <3>1, <3>4, <3>5
        <3>7. list[r].terms.cooldown \in Nat
            BY <3>2, <3>4 DEF Tables, Row, Terms
        <3> QED
            BY <3>4, <3>6, <3>7
    <2> QED
        BY <1>2, <2>1, <2>2
<1> HIDE DEF r, wait
<1>4. row[r].firedAt \in Moment /\ cache[r] \in Moment
    BY <1>1, <1>3 DEF Row
<1>5. row[r].firedAt # Nil /\ ~Ending(r) => cache[r] # Nil /\ cache[r] >= row[r].firedAt
    BY <1>3 DEF CooldownBase, CacheCoversTable
<1>6. row[r].firedAt = Nil \/ Ending(r) \/ now >= row[r].firedAt + wait
    BY <1>1, <1>3, <1>4, <1>5 DEF Moment
<1> QED
    BY <1>6 DEF r, wait

\* With a store that answers inside the call, no alert of a rule begins while the
\* time in its row puts it in cooldown.
THEOREM CooldownKept == ~Pooled => (Spec => TableCooldown)
<1> SUFFICES ASSUME ~Pooled PROVE Spec => TableCooldown
    OBVIOUS
<1> DEFINE Step == Begins => LET alert == fired'[Len(fired')]
                                 r == alert.rule
                             IN  \/ row[r].firedAt = Nil \/ Ending(r)
                                 \/ now >= row[r].firedAt + handler'[alert.event].list[r].terms.cooldown
<1>1. CooldownBase /\ [Next]_vars => Step
    BY StepCooldown
<1>2. Spec => []CooldownBase
    BY CooldownAlways
<1>3. Spec => [][Step]_vars
    <2> HIDE DEF Step
    <2> QED
        BY <1>1, <1>2, PTL DEF Spec
<1> QED
    BY <1>3 DEF TableCooldown

-----------------------------------------------------------------------------
(* The cached rules and the table.                                           *)

\* The store answers inside the call, or there is one call at a time.
OneAnswer == ~Pooled \/ \A c, d \in Calls : c = d

Alike(x, y) == x.there = y.there /\ x.enabled = y.enabled /\ x.terms = y.terms

\* Rules that are not those of the table are about to be read, or their call has failed;
\* what was read is what the table holds.
Current ==
    /\ \/ \E c \in Calls : call[c].pc \notin {"idle", "done"}
       \/ \A r \in Rules : Alike(rules[r], row[r])
    /\ \A c \in Calls : call[c].pc = "answered" =>
           Pooled /\ \A r \in Rules : Alike(call[c].rows[r], row[r])

LEMMA InitCurrent == Init => Current
    BY DEF Init, Current, Alike

\* A call changes the table: no answer is under way, and its own is to come.
LEMMA ChangeCurrent ==
    ASSUME Base, OneAnswer, Current, NEW c \in Calls, call[c].pc = "idle", Ask(c)
    PROVE  Current'
<1>1. /\ call'[c].pc = "reloading"
      /\ \A d \in Calls : d # c => call'[d] = call[d]
    BY DEF Base, TypeOK, Call, Ask
<1>2. \A d \in Calls : call'[d].pc # "answered"
    BY <1>1 DEF OneAnswer, Current
<1> QED
    BY <1>1, <1>2 DEF Current

LEMMA AdministerCurrent ==
    ASSUME Base, OneAnswer, Current, NEW c \in Calls, Administer(c)
    PROVE  Current'
<1>1. \A d \in Calls : call[d] \in Call
    BY DEF Base, TypeOK
<1>2. CASE \E r \in Rules : CreateRule(c, r) \/ UpdateRule(c, r) \/ DeleteRule(c, r)
    BY <1>2, ChangeCurrent DEF CreateRule, UpdateRule, DeleteRule
<1>3. CASE Select(c)
    <2>1. /\ \A d \in Calls : d # c => call'[d] = call[d]
          /\ row' = row
          /\ \/ rules' = row /\ call'[c].pc = "done"
             \/ Pooled /\ call'[c].pc = "answered" /\ call'[c].rows = row
        BY <1>1, <1>3 DEF Select, Loaded, Base, TypeOK, Call
    <2>2. \A r \in Rules : Alike(row[r], row[r])
        BY DEF Alike
    <2> QED
        BY <2>1, <2>2 DEF Current
<1>4. CASE Apply(c)
    <2>1. /\ \A d \in Calls : d # c => call'[d] = call[d]
          /\ call'[c].pc = "done" /\ row' = row /\ rules' = call[c].rows
        BY <1>1, <1>4 DEF Apply, Loaded, Base, TypeOK
    <2>2. \A r \in Rules : Alike(call[c].rows[r], row[r])
        BY <1>4 DEF Apply, Current
    <2> QED
        BY <2>1, <2>2 DEF Current
<1>5. CASE SelectFails(c)
    <2>1. /\ \A d \in Calls : d # c => call'[d] = call[d]
          /\ call'[c].pc = "failed" /\ row' = row
        BY <1>1, <1>5 DEF SelectFails, Base, TypeOK, Call
    <2> QED
        BY <2>1 DEF Current
<1> QED
    BY <1>2, <1>3, <1>4, <1>5 DEF Administer

LEMMA StepCurrent == OneAnswer => (Base /\ Current /\ [Next]_vars => Current')
<1> SUFFICES ASSUME OneAnswer, Base, Current, [Next]_vars PROVE Current'
    OBVIOUS
<1>1. CASE \E e \in Events : Handle(e)
    <2>1. UNCHANGED <<rules, call>>
        BY <1>1 DEF Handle, HandleEvent, WebhookSettles, WebhookBreaksOff, RecordHistory, Touch, Finish
    <2>2. \A r \in Rules : Alike(row'[r], row[r])
        <3>1. CASE row' = row
            BY <3>1 DEF Alike
        <3>2. CASE row' # row
            <4>1. PICK e \in Events : row' = [row EXCEPT ![handler[e].rule].firedAt = handler[e].firedAt]
                BY <1>1, <3>2 DEF Handle, HandleEvent, WebhookSettles, WebhookBreaksOff, RecordHistory, Touch, Finish
            <4>2. \A r \in Rules : row[r] \in Row
                BY DEF Base, TypeOK, Tables
            <4> QED
                BY <4>1, <4>2 DEF Base, TypeOK, Tables, Row, Alike
        <3> QED
            BY <3>1, <3>2
    <2> QED
        BY <2>1, <2>2 DEF Current, Alike
<1>2. CASE \E c \in Calls : Administer(c)
    BY <1>2, AdministerCurrent
<1>3. CASE Restart
    <2>1. rules' = row /\ row' = row
        BY <1>3 DEF Restart
    <2>2. \A c \in Calls : call'[c].pc # "answered"
        BY <1>3 DEF Restart
    <2> QED
        BY <2>1, <2>2 DEF Current, Alike
<1>4. CASE Tick \/ UNCHANGED vars
    BY <1>4 DEF Tick, vars, Current
<1> QED
    BY <1>1, <1>2, <1>3, <1>4 DEF Next

\* With a store that answers inside the call, or with one call at a time, the cached
\* rules are those of the table whenever no call is under way.
THEOREM RulesFollowTable == OneAnswer => (Spec => []RulesCurrent)
<1>1. Base /\ Current => RulesCurrent
    <2> SUFFICES ASSUME Base, Current, \A c \in Calls : call[c].pc \in {"idle", "done"}, NEW r \in Rules
                 PROVE  [rules[r] EXCEPT !.firedAt = Nil] = [row[r] EXCEPT !.firedAt = Nil]
        BY DEF RulesCurrent
    <2>1. rules[r] \in Row /\ row[r] \in Row
        BY DEF Base, TypeOK, Tables
    <2>2. Alike(rules[r], row[r])
        BY DEF Current
    <2> QED
        BY <2>1, <2>2 DEF Alike, Row
<1>2. CASE OneAnswer
    <2>1. Base /\ Current /\ [Next]_vars => Current'
        BY <1>2, StepCurrent
    <2> QED
        BY <1>1, <2>1, InitCurrent, BaseAlways, PTL DEF Spec
<1> QED
    BY <1>2

-----------------------------------------------------------------------------
(* No rule is skipped.                                                       *)

HasFired(r) == \E i \in DOMAIN fired : fired[i].rule = r

Speaks(r, list, e) ==
    list[r].there /\ list[r].enabled /\ evaluateRule(list[r].terms, Says[e])

\* Who remembers that a rule has fired, the tables as they were read included, is right.
Silent(r) ==
    /\ row[r].firedAt = Nil /\ rules[r].firedAt = Nil /\ cache[r] = Nil
    /\ \A e \in Events : handler[e].list[r].firedAt = Nil
    /\ \A c \in Calls : call[c].rows[r].firedAt = Nil

Remembered == \A r \in Rules : HasFired(r) \/ Silent(r)

\* A walk has fired the rule it is at, and the rules before it that have a reason to.
Walked ==
    \A e \in Events : Firing(e) =>
        /\ HasFired(handler[e].rule)
        /\ \A r \in Rules :
               r >= handler[e].rule /\ Speaks(r, handler[e].list, e) => HasFired(r)

HeardBase == Base /\ Remembered /\ Walked

\* An alert is never taken back.
LEMMA FiredGrows ==
    ASSUME TypeOK, NEW e \in Events, NEW list \in Tables, NEW left, NEW entries,
           Walk(e, list, left, entries), NEW r, HasFired(r)
    PROVE  HasFired(r)'
<1>1. CASE fired' = fired
    BY <1>1 DEF HasFired
<1>2. ASSUME NEW alert, fired' = Append(fired, alert)
      PROVE  HasFired(r)'
    <2>1. PICK i \in DOMAIN fired : fired[i].rule = r
        BY DEF HasFired
    <2>2. i \in DOMAIN fired' /\ fired'[i] = fired[i]
        BY <1>2, <2>1, AppendProperties DEF TypeOK
    <2> QED
        BY <2>1, <2>2 DEF HasFired
<1> QED
    BY <1>1, <1>2 DEF Walk

\* A walk that has fired what it passed over goes on to its end, or to the next rule.
LEMMA WalkHeard ==
    ASSUME TypeOK, NEW e \in Events, NEW list \in Tables, NEW left \in SUBSET Rules, NEW entries,
           Walk(e, list, left, entries),
           \A r \in Rules : entries[r] # Nil \/ list[r].firedAt # Nil => HasFired(r),
           \A r \in Rules \ left : Speaks(r, list, e) => HasFired(r)
    PROVE  \/ /\ handler'[e].pc = "done" /\ handler'[e].list = NoTable
              /\ \A r \in Rules : Speaks(r, list, e) => HasFired(r)
           \/ /\ handler'[e].pc = "delivering" /\ handler'[e].list = list
              /\ HasFired(handler[e].rule)'
              /\ \A r \in Rules : r >= handler'[e].rule /\ Speaks(r, list, e) => HasFired(r)'
<1> DEFINE hits == {r \in left : Fires(r, e, list, entries)}
<1>1. \A r \in Rules : r \notin hits /\ Speaks(r, list, e) => HasFired(r)
    BY DEF Fires, InCooldown, Speaks
<1>2. CASE hits = {}
    <2>1. handler' = [handler EXCEPT ![e] = [Idle EXCEPT !.pc = "done"]]
        BY <1>2 DEF Walk
    <2>2. handler'[e].pc = "done" /\ handler'[e].list = NoTable
        BY <2>1 DEF TypeOK, Idle
    <2> QED
        BY <1>1, <1>2, <2>2
<1>3. CASE hits # {}
    <2>1. PICK q \in hits :
             /\ \A p \in hits : p <= q
             /\ handler' = [handler EXCEPT ![e] =
                   [pc |-> "delivering", list |-> list, rule |-> q, firedAt |-> now]]
             /\ fired' = Append(fired, [rule |-> q, event |-> e, at |-> now])
        BY <1>3 DEF Walk
    <2>2. /\ handler'[e].pc = "delivering" /\ handler'[e].list = list
          /\ handler'[e].rule = q
        BY <2>1 DEF TypeOK
    <2>3. HasFired(q)'
        <3> DEFINE alert == [rule |-> q, event |-> e, at |-> now]
        <3>1. alert \in Alert /\ alert.rule = q
            BY DEF Alert, TypeOK
        <3> HIDE DEF alert
        <3>2. fired' = Append(fired, alert)
            BY <2>1 DEF alert
        <3>3. Len(fired) + 1 \in DOMAIN fired' /\ fired'[Len(fired) + 1] = alert
            BY <3>1, <3>2, AppendProperties DEF TypeOK
        <3> QED
            BY <3>1, <3>3 DEF HasFired
    <2>4. ASSUME NEW r \in Rules, r >= q, Speaks(r, list, e)
          PROVE  HasFired(r)'
        <3>1. CASE r \in hits
            <4>1. r \in Nat /\ q \in Nat
                OBVIOUS
            <4>2. r <= q /\ r >= q
                BY <2>1, <2>4, <3>1
            <4> HIDE DEF hits
            <4>3. r = q
                BY <4>1, <4>2
            <4> QED
                BY <2>3, <4>3
        <3>2. CASE r \notin hits
            BY <1>1, <2>4, <3>2, FiredGrows
        <3> QED
            BY <3>1, <3>2
    <2> QED
        BY <2>2, <2>3, <2>4
<1> QED
    BY <1>2, <1>3

LEMMA InitHeard == Init => HeardBase
<1> SUFFICES ASSUME Init PROVE HeardBase
    OBVIOUS
<1>1. \A r \in Rules : row[r].firedAt = Nil
    BY NoRowType, NewRowsType DEF Init
<1>2. \A r \in Rules : NoTable[r].firedAt = Nil
    BY NoRowType DEF NoTable
<1>3. Remembered
    BY <1>1, <1>2 DEF Init, Remembered, Silent, Idle
<1>4. Walked
    BY DEF Init, Walked, Firing, Idle
<1> QED
    BY <1>3, <1>4, InitBase DEF HeardBase

\* The other walks are where they were.
LEMMA OthersHeard ==
    ASSUME HeardBase, NEW e \in Events, NEW list \in Tables, NEW left, NEW entries,
           Walk(e, list, left, entries), NEW k \in Events, k # e
    PROVE  /\ handler'[k] = handler[k]
           /\ Firing(k)' =>
                 /\ HasFired(handler[k].rule)'
                 /\ \A r \in Rules :
                        r >= handler'[k].rule /\ Speaks(r, handler'[k].list, k) => HasFired(r)'
<1>1. TypeOK
    BY DEF HeardBase, Base
<1>2. handler'[k] = handler[k]
    BY <1>1 DEF Walk, TypeOK
<1> QED
    BY <1>1, <1>2, FiredGrows DEF HeardBase, Walked, Firing

\* A walk on what it knows keeps both parts, whatever it has written into the cache.
LEMMA WalkKeeps ==
    ASSUME HeardBase, NEW e \in Events, NEW list \in Tables, NEW left \in SUBSET Rules,
           Walk(e, list, left, cache'),
           \A r \in Rules : cache'[r] # Nil \/ list[r].firedAt # Nil => HasFired(r),
           \A r \in Rules \ left : Speaks(r, list, e) => HasFired(r),
           UNCHANGED <<row, rules, call>>
    PROVE  Remembered' /\ Walked'
<1>1. TypeOK
    BY DEF HeardBase, Base
<1>2. \/ /\ handler'[e].pc = "done" /\ handler'[e].list = NoTable
         /\ \A r \in Rules : Speaks(r, list, e) => HasFired(r)
      \/ /\ handler'[e].pc = "delivering" /\ handler'[e].list = list
         /\ HasFired(handler[e].rule)'
         /\ \A r \in Rules : r >= handler'[e].rule /\ Speaks(r, list, e) => HasFired(r)'
    BY <1>1, WalkHeard
<1>3. Walked'
    BY <1>2, OthersHeard DEF Walked, Firing, Speaks
<1>4. ASSUME NEW r \in Rules, ~HasFired(r)'
      PROVE  Silent(r)'
    <2>1. ~HasFired(r)
        BY <1>1, <1>4, FiredGrows
    <2>2. Silent(r)
        BY <2>1 DEF HeardBase, Remembered
    <2>3. cache'[r] = Nil /\ list[r].firedAt = Nil
        BY <2>1
    <2>4. NoTable[r].firedAt = Nil
        BY NoRowType DEF NoTable
    <2>5. \A k \in Events : handler'[k].list[r].firedAt = Nil
        BY <1>2, <2>2, <2>3, <2>4, OthersHeard DEF Silent
    <2> QED
        BY <2>2, <2>3, <2>5 DEF Silent
<1> QED
    BY <1>3, <1>4 DEF Remembered

\* What moves on without a walk.
LEMMA OnwardsHeard ==
    ASSUME HeardBase, NEW e \in Events, Firing(e),
           NEW pc \in {"recording", "touching", "touched", "hung"}, Goto(e, pc),
           UNCHANGED <<rules, cache, call, fired>>,
           \A r \in Rules : row'[r].firedAt = row[r].firedAt \/ r = handler[e].rule
    PROVE  Remembered' /\ Walked'
<1>1. handler \in [Events -> Handler]
    BY DEF HeardBase, Base, TypeOK
<1>2. \A k \in Events : /\ handler'[k].list = handler[k].list /\ handler'[k].rule = handler[k].rule
                        /\ Firing(k)' => Firing(k)
    BY <1>1 DEF Goto, Handler, Firing
<1>3. \A r \in Rules : HasFired(r)' <=> HasFired(r)
    BY DEF HasFired
<1>4. HasFired(handler[e].rule)
    BY DEF HeardBase, Walked
<1>5. ASSUME NEW r \in Rules, ~HasFired(r)'
      PROVE  Silent(r)'
    <2>1. ~HasFired(r) /\ r # handler[e].rule
        BY <1>3, <1>4, <1>5
    <2>2. Silent(r)
        BY <2>1 DEF HeardBase, Remembered
    <2> QED
        BY <1>2, <2>1, <2>2 DEF Silent
<1>6. Walked'
    BY <1>2 DEF HeardBase, Walked, HasFired, Speaks
<1> QED
    BY <1>5, <1>6 DEF Remembered

LEMMA NotBelow ==
    ASSUME NEW t \in Rules, NEW r \in Rules, ~(r < t)
    PROVE  r >= t
<1>1. t \in Nat /\ r \in Nat
    OBVIOUS
<1> QED
    BY <1>1

LEMMA HandleHeard ==
    ASSUME HeardBase, NEW e \in Events, Handle(e)
    PROVE  Remembered' /\ Walked'
<1>1. /\ handler \in [Events -> Handler] /\ rules \in Tables /\ row \in [Rules -> Row]
      /\ cache \in [Rules -> Moment] /\ now # Nil
    BY DEF HeardBase, Base, TypeOK, Tables
<1>2. CASE HandleEvent(e)
    <2>1. Walk(e, rules, Rules, cache') /\ UNCHANGED <<row, rules, cache, call>>
        BY <1>2 DEF HandleEvent
    <2>2. \A r \in Rules : cache'[r] # Nil \/ rules[r].firedAt # Nil => HasFired(r)
        BY <2>1 DEF HeardBase, Remembered, Silent
    <2> QED
        BY <1>1, <2>1, <2>2, WalkKeeps
<1>3. CASE Finish(e)
    <2> DEFINE t == handler[e].rule
               list == handler[e].list
               left == {r \in Rules : r < t}
    <2>1. /\ Walk(e, list, left, cache') /\ cache' = [cache EXCEPT ![t] = now]
          /\ Firing(e) /\ UNCHANGED <<row, rules, call>>
        BY <1>3 DEF Finish, At, Firing
    <2>2. list \in Tables /\ left \in SUBSET Rules
        BY <1>1 DEF Handler
    <2>3. HasFired(t) /\ \A r \in Rules : r >= t /\ Speaks(r, list, e) => HasFired(r)
        BY <2>1 DEF HeardBase, Walked
    <2>4. \A r \in Rules : cache'[r] # Nil \/ list[r].firedAt # Nil => HasFired(r)
        <3> SUFFICES ASSUME NEW r \in Rules, ~HasFired(r)
                     PROVE  cache'[r] = Nil /\ list[r].firedAt = Nil
            OBVIOUS
        <3>1. Silent(r) /\ r # t
            BY <2>3 DEF HeardBase, Remembered
        <3> QED
            BY <1>1, <2>1, <3>1 DEF Silent
    <2>5. \A r \in Rules \ left : Speaks(r, list, e) => HasFired(r)
        <3>1. t \in Rules
            BY <2>1 DEF HeardBase, Base, NothingAhead
        <3>2. \A r \in Rules \ left : r >= t
            BY <3>1, NotBelow
        <3> QED
            BY <2>3, <3>2
    <2> HIDE DEF left, list
    <2> QED
        BY <2>1, <2>2, <2>4, <2>5, WalkKeeps
<1>4. CASE WebhookSettles(e)
    BY <1>4, OnwardsHeard DEF WebhookSettles, At, Firing
<1>5. CASE WebhookBreaksOff(e)
    BY <1>5, OnwardsHeard DEF WebhookBreaksOff, At, Firing
<1>6. CASE RecordHistory(e)
    BY <1>6, OnwardsHeard DEF RecordHistory, At, Firing
<1>7. CASE Touch(e)
    <2>1. \A r \in Rules : row'[r].firedAt = row[r].firedAt \/ r = handler[e].rule
        BY <1>1, <1>7 DEF Touch
    <2> QED
        BY <1>7, <2>1, OnwardsHeard DEF Touch, At, Firing
<1> QED
    BY <1>2, <1>3, <1>4, <1>5, <1>6, <1>7 DEF Handle

\* A call and a restart read and write what is known, or nothing.
LEMMA KnownHeard ==
    ASSUME HeardBase, UNCHANGED fired,
           \A r \in Rules : Silent(r) => Silent(r)',
           \A e \in Events : Firing(e)' => Firing(e) /\ handler'[e] = handler[e]
    PROVE  Remembered' /\ Walked'
<1>1. \A r \in Rules : HasFired(r)' <=> HasFired(r)
    BY DEF HasFired
<1>2. Remembered'
    BY <1>1 DEF HeardBase, Remembered
<1>3. Walked'
    BY <1>1 DEF HeardBase, Walked, HasFired, Speaks
<1> QED
    BY <1>2, <1>3

LEMMA AdministerHeard ==
    ASSUME HeardBase, NEW c \in Calls, Administer(c)
    PROVE  Remembered' /\ Walked'
<1>1. /\ row \in [Rules -> Row] /\ call \in [Calls -> Call] /\ cache \in [Rules -> Moment]
    BY DEF HeardBase, Base, TypeOK, Tables
<1>2. UNCHANGED <<handler, fired>>
    BY DEF Administer, CreateRule, UpdateRule, DeleteRule, Select, Apply, SelectFails
<1>3. \A e \in Events : Firing(e)' => Firing(e) /\ handler'[e] = handler[e]
    BY <1>2 DEF Firing
<1>4. ASSUME NEW r \in Rules, Silent(r)
      PROVE  Silent(r)'
    <2>1. ASSUME NEW q \in Rules, CreateRule(c, q) \/ UpdateRule(c, q) \/ DeleteRule(c, q)
          PROVE  Silent(r)'
        <3>1. row'[r].firedAt = Nil
            <4>1. CASE CreateRule(c, q)
                BY <1>1, <1>4, <4>1, NewRowsType DEF CreateRule, Silent
            <4>2. CASE UpdateRule(c, q)
                BY <1>1, <1>4, <4>2, UpdatesType DEF UpdateRule, Silent
            <4>3. CASE DeleteRule(c, q)
                BY <1>1, <1>4, <4>3, NoRowType DEF DeleteRule, Silent
            <4> QED
                BY <2>1, <4>1, <4>2, <4>3
        <3>2. \A k \in Calls : call'[k].rows = call[k].rows
            BY <1>1, <2>1 DEF CreateRule, UpdateRule, DeleteRule, Ask, Call
        <3>3. UNCHANGED <<rules, cache, handler>>
            BY <2>1 DEF CreateRule, UpdateRule, DeleteRule
        <3> QED
            BY <1>4, <3>1, <3>2, <3>3 DEF Silent
    <2>2. CASE Select(c)
        BY <1>1, <1>4, <2>2 DEF Select, Loaded, Silent, Call
    <2>3. CASE Apply(c)
        <3>1. NoTable[r].firedAt = Nil
            BY NoRowType DEF NoTable
        <3> QED
            BY <1>1, <1>4, <2>3, <3>1 DEF Apply, Loaded, Silent, Call
    <2>4. CASE SelectFails(c)
        BY <1>1, <1>4, <2>4 DEF SelectFails, Silent, Call
    <2> QED
        BY <2>1, <2>2, <2>3, <2>4 DEF Administer
<1> QED
    BY <1>2, <1>3, <1>4, KnownHeard

LEMMA RestartHeard ==
    ASSUME HeardBase, Restart
    PROVE  Remembered' /\ Walked'
<1>1. \A r \in Rules : NoTable[r].firedAt = Nil
    BY NoRowType DEF NoTable
<1>2. \A r \in Rules : Silent(r) => Silent(r)'
    BY <1>1 DEF Restart, Silent, Idle
<1>3. \A e \in Events : ~Firing(e)'
    BY DEF Restart, Firing, Idle
<1> QED
    BY <1>2, <1>3, KnownHeard DEF Restart

LEMMA StepHeard == HeardBase /\ [Next]_vars => HeardBase'
<1> SUFFICES ASSUME HeardBase, [Next]_vars PROVE HeardBase'
    OBVIOUS
<1>1. Base'
    BY StepBase DEF HeardBase
<1>2. CASE \E e \in Events : Handle(e)
    BY <1>1, <1>2, HandleHeard DEF HeardBase
<1>3. CASE \E c \in Calls : Administer(c)
    BY <1>1, <1>3, AdministerHeard DEF HeardBase
<1>4. CASE Restart
    BY <1>1, <1>4, RestartHeard DEF HeardBase
<1>5. CASE Tick \/ UNCHANGED vars
    <2>1. UNCHANGED <<row, rules, cache, handler, call, fired>>
        BY <1>5 DEF Tick, vars
    <2>2. Remembered' /\ Walked'
        BY <2>1, KnownHeard DEF Silent, Firing
    <2> QED
        BY <1>1, <2>2 DEF HeardBase
<1> QED
    BY <1>2, <1>3, <1>4, <1>5 DEF Next

\* The end of a walk.
LEMMA StepEnds ==
    ASSUME HeardBase, [Next]_vars, NEW e \in Events, Ends(e), NEW r \in Rules,
           Speaks(r, IF At(e, "idle") THEN rules ELSE handler[e].list, e)
    PROVE  HasFired(r)
<1>1. /\ handler \in [Events -> Handler] /\ rules \in Tables /\ TypeOK
      /\ cache \in [Rules -> Moment]
    BY DEF HeardBase, Base, TypeOK
<1>2. HandleEvent(e) \/ Finish(e)
    <2>1. PICK k \in Events : Handle(k) \/ UNCHANGED handler \/ Restart
        BY DEF Next, vars, Administer, CreateRule, UpdateRule, DeleteRule, Select, Apply, SelectFails, Tick
    <2>2. ~Restart /\ ~UNCHANGED handler
        BY DEF Restart, Ends, Idle
    <2>3. k = e
        BY <1>1, <2>1, <2>2
           DEF Ends, Handle, HandleEvent, WebhookSettles, WebhookBreaksOff, RecordHistory, Touch, Finish, Goto, Walk
    <2>4. ~WebhookSettles(e) /\ ~WebhookBreaksOff(e) /\ ~RecordHistory(e) /\ ~Touch(e)
        BY <1>1 DEF Ends, WebhookSettles, WebhookBreaksOff, RecordHistory, Touch, Goto, Handler
    <2> QED
        BY <2>1, <2>2, <2>3, <2>4 DEF Handle
<1>3. CASE HandleEvent(e)
    <2>1. At(e, "idle") /\ Walk(e, rules, Rules, cache)
        BY <1>3 DEF HandleEvent
    <2>2. \A q \in Rules : cache[q] # Nil \/ rules[q].firedAt # Nil => HasFired(q)
        BY DEF HeardBase, Remembered, Silent
    <2>3. handler'[e].pc # "delivering"
        BY DEF Ends
    <2>4. \A q \in Rules : Speaks(q, rules, e) => HasFired(q)
        BY <1>1, <2>1, <2>2, <2>3, WalkHeard
    <2> QED
        BY <2>1, <2>4
<1>4. CASE Finish(e)
    <2> DEFINE t == handler[e].rule
               list == handler[e].list
               left == {q \in Rules : q < t}
    <2>1. /\ Walk(e, list, left, cache') /\ cache' = [cache EXCEPT ![t] = now]
          /\ Firing(e) /\ ~At(e, "idle")
        BY <1>4 DEF Finish, At, Firing
    <2>2. list \in Tables /\ left \in SUBSET Rules
        BY <1>1 DEF Handler
    <2>3. HasFired(t) /\ \A q \in Rules : q >= t /\ Speaks(q, list, e) => HasFired(q)
        BY <2>1 DEF HeardBase, Walked
    <2>4. \A q \in Rules : cache'[q] # Nil \/ list[q].firedAt # Nil => HasFired(q)
        BY <2>1, <2>3, <1>1 DEF HeardBase, Remembered, Silent
    <2>5. \A q \in Rules \ left : Speaks(q, list, e) => HasFired(q)
        <3>1. t \in Rules
            BY <2>1 DEF HeardBase, Base, NothingAhead
        <3> QED
            BY <2>3, <3>1, NotBelow
    <2>6. handler'[e].pc # "delivering"
        BY DEF Ends
    <2> HIDE DEF left, list
    <2>7. PICK entries : entries = cache'
        OBVIOUS
    <2>8. Walk(e, list, left, entries)
        BY <2>1, <2>7
    <2>9. \A q \in Rules : Speaks(q, list, e) => HasFired(q)
        BY <1>1, <2>2, <2>4, <2>5, <2>6, <2>7, <2>8, WalkHeard
    <2> QED
        BY <2>1, <2>9 DEF list
<1> QED
    BY <1>2, <1>3, <1>4

\* Whatever alerts, changes of rules, failures and restarts come in between, a walk that
\* ends has fired each rule it knew that matches, unless the rule had fired before; also
\* with pooled connections.
THEOREM NoneSkipped == Spec => NoRuleSkipped
<1> DEFINE Step ==
        \A e \in Events : Ends(e) =>
            LET list == IF At(e, "idle") THEN rules ELSE handler[e].list
            IN  \A r \in Rules :
                   list[r].there /\ list[r].enabled /\ evaluateRule(list[r].terms, Says[e]) =>
                       \E i \in DOMAIN fired : fired[i].rule = r
<1>1. HeardBase /\ [Next]_vars => Step
    BY StepEnds DEF Speaks, HasFired
<1>2. Spec => []HeardBase
    BY InitHeard, StepHeard, PTL DEF Spec
<1>3. Spec => [][Step]_vars
    <2> HIDE DEF Step
    <2> QED
        BY <1>1, <1>2, PTL DEF Spec
<1> QED
    BY <1>3 DEF NoRuleSkipped

=============================================================================

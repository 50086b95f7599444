------------------------------ MODULE Choices -------------------------------
(***************************************************************************)
(* Computed choices of the fabric form: a port whose values a command or a *)
(* function lists, given the text of the port it depends on.               *)
(*                                                                         *)
(* js/dispatch/update/modal/fabric-form.js keeps the form, the popover and *)
(* the cache that shows an old list while the new one is fetched;          *)
(* js/feature/choices-cmd-runtime.js and choices-fn-runtime.js fetch;      *)
(* js/dispatch/runtime/effects.js runs one fetch per key and aborts the    *)
(* one before.  A form of the model has the port d and the port c, whose   *)
(* choices depend on d.                                                    *)
(*                                                                         *)
(* A definition named X_Suffix is a faulty variant of X; see Streams.      *)
(***************************************************************************)
EXTENDS Naturals, Sequences, Functions

CONSTANTS FormActions,  \* actions whose form has such a port
          Shelled,      \* those that fetch with choices_cmd; the others call a function
          Texts,        \* texts of the port d, "" apart
          Sizes,        \* <<items, items that pass the filter>> of a list
          CacheCap,     \* choicesCache.cap
          MaxFetches    \* bound on the fetches ever started

ASSUME ChoicesAssumption ==
  /\ Shelled \subseteq FormActions
  /\ "" \notin Texts
  /\ Sizes \subseteq {s \in Nat \X Nat : s[2] <= s[1]}
  /\ CacheCap \in Nat \ {0} /\ MaxFetches \in Nat

VARIABLES
  form,      \* modal.fabricForm, with the computed slot of c and the popover
  fetches,   \* every fetch started, in order
  inflight,  \* effects.js _inflight: the fetch that holds the key of an action, 0 for none
  choices    \* choicesCache: entries in LRU order

choicesVars == <<form, fetches, inflight, choices>>

\* A list knows what it was computed for; Empty is no list, or an error.
Empty == [for |-> <<>>, size |-> 0, hits |-> 0]
ListsFor(a, d) == {[for |-> <<a, d>>, size |-> s[1], hits |-> s[2]] : s \in Sizes}

List == [for : {<<>>} \cup (FormActions \X Texts), size : Nat, hits : Nat]

Idle == [state |-> "idle", req |-> 0, inputs |-> "", items |-> Empty, stale |-> FALSE]
NoForm == [open |-> FALSE, action |-> "", d |-> "", c |-> <<>>, focus |-> "d", seq |-> 0,
           comp |-> Idle, picking |-> <<>>]

Form == [open : BOOLEAN, action : FormActions \cup {""}, d : Texts \cup {""},
         c : {<<>>} \cup (FormActions \X Texts), focus : {"d", "c"}, seq : Nat,
         comp : [state : {"idle", "pending", "ok", "error"}, req : Nat,
                 inputs : Texts \cup {""}, stale : BOOLEAN,
                 items : List],
         picking : {<<>>} \cup [idx : Nat, filter : BOOLEAN]]

Fetch == [action : FormActions, d : Texts, req : Nat \ {0}, aborted : BOOLEAN, settled : BOOLEAN,
          failing : BOOLEAN,                     \* timedOut or overflowed
          kill : {"no", "armed", "sent"}]        \* the SIGKILL after the SIGTERM

Entry == [key : FormActions \X Texts, items : List]

ChoicesTypeOK ==
  /\ form \in Form /\ fetches \in Seq(Fetch) /\ choices \in Seq(Entry)
  /\ inflight \in [FormActions -> 0..Len(fetches)]
  /\ Len(choices) <= CacheCap

ChoicesInit ==
  /\ form = NoForm /\ fetches = <<>> /\ choices = <<>>
  /\ inflight = [a \in FormActions |-> 0]

-----------------------------------------------------------------------------
(* The cache: a put moves the key to the end, the head is dropped.         *)

CacheGet(cache, key) == {e \in Range(cache) : e.key = key}

CachePut(cache, key, items) ==
  LET at == {n \in DOMAIN cache : cache[n].key = key}
      old == CHOOSE n \in at : TRUE
      others == IF at = {} THEN cache
                ELSE SubSeq(cache, 1, old - 1) \o SubSeq(cache, old + 1, Len(cache))
      all == Append(others, [key |-> key, items |-> items])
  IN  IF Len(all) > CacheCap THEN Tail(all) ELSE all

-----------------------------------------------------------------------------
(* The effect runtime and the reply, on a state [form, fetches, inflight,  *)
(* choices]; a keystroke is a composition of these.                        *)

\* The signal of a fetch: a command is killed, a function is left to notice.
Abort(f) ==
  IF f.settled THEN f
  ELSE [f EXCEPT !.aborted = TRUE,
                 !.kill = IF @ = "no" /\ f.action \in Shelled THEN "armed" ELSE @]

CancelEffect(st, a) ==
  IF st.inflight[a] = 0 THEN st
  ELSE [st EXCEPT !.fetches[st.inflight[a]] = Abort(@), !.inflight[a] = 0]

\* releaseKey frees the key only for the fetch that holds it.
Release(st, i) ==
  LET a == st.fetches[i].action IN
  IF st.inflight[a] = i THEN [st EXCEPT !.inflight[a] = 0] ELSE st

\* The highlight stays in the rows that show, or goes to the first one.
Rows(items, picking) == IF picking.filter THEN items.hits ELSE items.size

Clamped(picking, items) ==
  IF picking = <<>> \/ picking.idx < Rows(items, picking) THEN picking
  ELSE [picking EXCEPT !.idx = IF Rows(items, picking) = 0 THEN 0 ELSE Rows(items, picking) - 1]

Expected_AnyForm(st, i) == st.form.open /\ st.form.comp.req = st.fetches[i].req

\* fabric_form_choices_resolved: the reply is that of the form's last request.
Expected(st, i) ==
  /\ st.form.open /\ st.form.action = st.fetches[i].action
  /\ st.form.comp.req = st.fetches[i].req

\* A list replaces what shows and enters the cache; an error leaves an old list.
Resolved(st, i, reply) ==
  LET f == st.form
      c == f.comp
      failed == reply = Empty
      shown == IF failed /\ c.stale /\ c.items.size > 0 THEN c.items ELSE reply
  IN  IF ~Expected(st, i) THEN st
      ELSE [st EXCEPT
             !.form = [f EXCEPT !.comp = [c EXCEPT !.items = shown,
                                                   !.state = IF failed THEN "error" ELSE "ok",
                                                   !.stale = failed /\ shown # Empty],
                                !.picking = Clamped(f.picking, shown)],
             !.choices = IF failed THEN @ ELSE CachePut(@, <<f.action, c.inputs>>, reply)]

\* settle: an aborted fetch says nothing; in either case the key is released and
\* the timers are cleared.
Settle(st, i, reply) ==
  LET done == [st EXCEPT !.fetches[i] = [@ EXCEPT !.settled = TRUE, !.aborted = FALSE,
                                                  !.failing = FALSE, !.kill = "no"]]
  IN  Release(IF st.fetches[i].aborted THEN done ELSE Resolved(done, i, reply), i)

\* A keyed effect aborts the fetch that holds the key and takes it; a fetch
\* that cannot start (no such function, spawn throws) settles there and then.
RunKeyed(st, f, starts) ==
  LET i == Len(st.fetches) + 1
      begun == [CancelEffect(st, f.action) EXCEPT !.fetches = Append(@, f), !.inflight[f.action] = i]
  IN  IF starts THEN begun ELSE Settle(begun, i, Empty)

\* fabric_form_choices_request: what the cache has shows at once, marked stale.
Requested(st, starts) ==
  LET f == st.form
      hit == CacheGet(st.choices, <<f.action, f.d>>)
      asked == [f.comp EXCEPT !.state = IF hit = {} THEN "pending" ELSE "ok",
                              !.req = f.seq + 1, !.inputs = f.d, !.stale = hit # {},
                              !.items = IF hit = {} THEN @ ELSE (CHOOSE e \in hit : TRUE).items]
  IN  RunKeyed([st EXCEPT !.form = [f EXCEPT !.comp = asked, !.seq = f.seq + 1]],
               [action |-> f.action, d |-> f.d, req |-> f.seq + 1, aborted |-> FALSE,
                settled |-> FALSE, failing |-> FALSE, kill |-> "no"], starts)

\* The fetch of a field that shows as pending is aborted when the form closes.
CancelPending(st) == IF st.form.comp.state = "pending" THEN CancelEffect(st, st.form.action) ELSE st
CloseForm(st) == [CancelPending(st) EXCEPT !.form = NoForm]

\* fabric_form_enter: with the port d filled (a default, or the last value), ask.
EnterForm(st, a, text, starts) ==
  LET opened == [st EXCEPT !.form = [NoForm EXCEPT !.open = TRUE, !.action = a, !.d = text]]
  IN  IF text = "" THEN opened ELSE Requested(opened, starts)

ChoicesNow == [form |-> form, fetches |-> fetches, inflight |-> inflight, choices |-> choices]
Becomes(st) ==
  /\ Len(st.fetches) <= MaxFetches
  /\ form' = st.form /\ fetches' = st.fetches /\ inflight' = st.inflight /\ choices' = st.choices
-----------------------------------------------------------------------------
(* Keys.                                                                   *)

OpenForm ==
  /\ ~form.open
  /\ \E a \in FormActions, text \in Texts \cup {""}, starts \in BOOLEAN :
       Becomes(EnterForm(ChoicesNow, a, text, starts))

\* Typing in d, clearing it, resetting it: no request before the field is left.
TypeText ==
  /\ form.open /\ form.picking = <<>> /\ form.focus = "d"
  /\ \E text \in (Texts \cup {""}) \ {form.d} : form' = [form EXCEPT !.d = text]
  /\ UNCHANGED <<fetches, inflight, choices>>

TakenBack_KeepsPending(st) == CancelEffect(st, st.form.action)

TakenBack(st) == [CancelEffect(st, st.form.action) EXCEPT !.form.comp = Idle]

\* Tab: the popover closes, and when d is left with another text than the one
\* the list was asked for, the list is asked again; an emptied d takes a pending
\* request back.
Tab ==
  /\ form.open
  /\ LET moved == [ChoicesNow EXCEPT !.form.picking = <<>>,
                              !.form.focus = IF @ = "d" THEN "c" ELSE "d"]
     IN  IF form.focus = "c" THEN Becomes(moved)
         ELSE IF form.d = ""
              THEN Becomes(IF form.comp.state = "pending" THEN TakenBack(moved) ELSE moved)
              ELSE IF form.d = form.comp.inputs THEN Becomes(moved)
                   ELSE \E starts \in BOOLEAN : Becomes(Requested(moved, starts))

\* Enter: a form in which nothing was filled keeps open on its required field;
\* else it closes, and the run may ask for a port still missing.
Submit ==
  /\ form.open /\ form.picking = <<>>
  /\ IF form.d = "" /\ form.c = <<>>
     THEN form' = [form EXCEPT !.focus = "d"] /\ UNCHANGED <<fetches, inflight, choices>>
     ELSE \/ Becomes(CloseForm(ChoicesNow))
          \/ /\ form.d = ""
             /\ Becomes(EnterForm(CloseForm(ChoicesNow), form.action, "", TRUE))

CancelForm == form.open /\ form.picking = <<>> /\ Becomes(CloseForm(ChoicesNow))

\* Space on c opens the popover, and closes it again as Escape does.
OpenPicker ==
  /\ form.open /\ form.focus = "c" /\ form.picking = <<>>
  /\ form' = [form EXCEPT !.picking = [idx |-> 0, filter |-> FALSE]]
  /\ UNCHANGED <<fetches, inflight, choices>>

ClosePicker ==
  /\ form.picking # <<>>
  /\ form' = [form EXCEPT !.picking = IF @.filter THEN [idx |-> 0, filter |-> FALSE] ELSE <<>>]
  /\ UNCHANGED <<fetches, inflight, choices>>

MovePicker ==
  /\ form.picking # <<>> /\ form.comp.state = "ok"
  /\ \E idx \in {form.picking.idx + 1, form.picking.idx - 1} :
       idx \in 0..(Rows(form.comp.items, form.picking) - 1) /\ form' = [form EXCEPT !.picking.idx = idx]
  /\ UNCHANGED <<fetches, inflight, choices>>

\* A printable key narrows the list, a backspace widens it.
FilterPicker ==
  /\ form.picking # <<>>
  /\ form' = [form EXCEPT !.picking = [idx |-> 0, filter |-> ~@.filter]]
  /\ UNCHANGED <<fetches, inflight, choices>>

\* Enter in the popover takes the highlighted value, if there is one.
Pick ==
  /\ form.picking # <<>>
  /\ form' = [form EXCEPT !.picking = <<>>,
                          !.c = IF form.picking.idx < Rows(form.comp.items, form.picking)
                                THEN form.comp.items.for ELSE @]
  /\ UNCHANGED <<fetches, inflight, choices>>

-----------------------------------------------------------------------------
(* What a fetch does by itself.                                            *)

Replies(f) == {Empty} \cup IF f.failing THEN {} ELSE ListsFor(f.action, f.d)

\* The command ends and its pipes close, or the function's promise settles.
Close(i) ==
  /\ ~fetches[i].settled
  /\ \E reply \in Replies(fetches[i]) : Becomes(Settle(ChoicesNow, i, reply))

\* Too long, or too much output: the group gets a SIGTERM, which it may ignore.
Overrun(i) ==
  LET f == fetches[i] IN
  /\ f.action \in Shelled /\ ~f.settled /\ ~f.failing
  /\ fetches' = [fetches EXCEPT ![i].failing = TRUE, ![i].kill = IF @ = "no" THEN "armed" ELSE @]
  /\ UNCHANGED <<form, inflight, choices>>

\* 500 ms after the SIGTERM, a SIGKILL.
HardKill(i) ==
  /\ ~fetches[i].settled /\ fetches[i].kill = "armed"
  /\ fetches' = [fetches EXCEPT ![i].kill = "sent"]
  /\ UNCHANGED <<form, inflight, choices>>

ChoicesNext ==
  \/ OpenForm \/ TypeText \/ Tab \/ Submit \/ CancelForm
  \/ OpenPicker \/ ClosePicker \/ MovePicker \/ FilterPicker \/ Pick
  \/ \E i \in DOMAIN fetches : Close(i) \/ Overrun(i) \/ HardKill(i)

\* Timers fire; what got a SIGKILL ends.
ChoicesEvents(i) ==
  /\ i \in DOMAIN fetches
  /\ Overrun(i) \/ HardKill(i) \/ (fetches[i].kill = "sent" /\ Close(i))

-----------------------------------------------------------------------------
(* Properties.                                                             *)

\* What the form offers, and what the cache will offer, was listed for the
\* action and the text it is offered for, whichever fetches settled late, and
\* the highlight of the popover is on a row (fabric-form.js:857, the guards).
ListsBelong ==
  /\ form.open /\ form.comp.state \in {"ok", "error"} /\ form.comp.items # Empty =>
       form.comp.items.for = <<form.action, form.comp.inputs>>
  /\ \A e \in Range(choices) : e.items # Empty => e.items.for = e.key
  /\ form.picking # <<>> /\ form.comp.items.size > 0 =>
       form.picking.idx = 0 \/ form.picking.idx < Rows(form.comp.items, form.picking)

\* A key is held exactly by the one fetch of its action that was neither
\* settled nor aborted: so that fetch can be aborted, and no other is
\* (effects.js:111, choices-cmd-runtime.js settle).
KeyHeldByLiveFetch ==
  \A i \in DOMAIN fetches :
    inflight[fetches[i].action] = i <=> ~fetches[i].settled /\ ~fetches[i].aborted

\* A command always settles, also one that ignores the SIGTERM, whichever of
\* abort, timeout, overflow and close comes first (choices-cmd-runtime.js:236).
CommandsSettle ==
  \A i \in 1..MaxFetches :
    (i \in DOMAIN fetches /\ fetches[i].action \in Shelled) ~>
      (i \in DOMAIN fetches /\ fetches[i].settled)

\* So a list that shows as being fetched by a command comes, or fails, or is
\* asked for anew.
PendingEnds ==
  form.comp.state = "pending" /\ form.action \in Shelled ~> form.comp.state # "pending"

\* "If the computed state is still 'pending', the popover opens empty": nothing
\* can be picked from a list that is being fetched (fabric-form.js, choices_open).
\* It does not hold (README, section 5).
PickIsShown ==
  [][form.open /\ form'.open /\ form'.c # form.c => form.comp.state # "pending"]_choicesVars

\* Closing the form aborts what it was fetching (fabric-form.js, cancel).  Not so
\* for a list fetched anew (README, section 5).
NoFetchOutlivesForm ==
  ~form.open => \A i \in DOMAIN fetches : fetches[i].settled \/ fetches[i].aborted
=============================================================================

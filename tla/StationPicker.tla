---------------------------- MODULE StationPicker ----------------------------
(***************************************************************************)
(* The combobox of frontend/components/StationPicker.tsx: what is typed,   *)
(* the debounced lookup of stations, the list of suggestions and the       *)
(* station that is passed up to the form.                                  *)
(*                                                                         *)
(* A step is one browser event (a key, a click, the debounce timer, the    *)
(* answer of a lookup, a new value from the form) with the React effects   *)
(* it sets off, which run before the next event: Settle is those effects.  *)
(***************************************************************************)
EXTENDS Integers, Sequences

CONSTANTS
  Stations, NoStation,
  Texts,           \* trimmed input texts; "" is the empty one
  LabelOf,         \* LabelOf[s]: "NAME (CODE)" of a station, an element of Texts
  Found            \* Found[t]: what the API answers when asked for text t

VARIABLES
  value,           \* the station chosen, held by the form
  text, hits, open, active, loading,
  lookup           \* the lookup of the last effect: none, waiting for the debounce timer, or asked

pickerVars == <<value, text, hits, open, active, loading, lookup>>
localVars  == <<text, hits, open, active, loading, lookup>>

NoLookup == [phase |-> "none", q |-> ""]
Label(v) == IF v = NoStation THEN "" ELSE LabelOf[v]
Listed   == open /\ hits # <<>>

TypeOK ==
  /\ value \in Stations \cup {NoStation}
  /\ text \in Texts
  /\ hits \in Seq(Stations)
  /\ open \in BOOLEAN /\ loading \in BOOLEAN
  /\ active \in Nat \ {0}
  /\ lookup \in [phase : {"none", "waiting", "asked"}, q : Texts]

(* A picker appears with the value the form starts with. *)
Blank(v) ==
  /\ text = Label(v)
  /\ hits = <<>> /\ open = FALSE /\ active = 1 /\ loading = FALSE
  /\ lookup = NoLookup

Mount(v) ==
  /\ text' = Label(v)
  /\ hits' = <<>> /\ open' = FALSE /\ active' = 1 /\ loading' = FALSE
  /\ lookup' = NoLookup

(***************************************************************************)
(* The text that the effect on [value] leaves: the label of a new value    *)
(* replaces whatever the event put into the input.                         *)
(***************************************************************************)
TextAfter(v, t) == IF v # value THEN Label(v) ELSE t

\* Fault: the lookup under way is not aborted.
SettleKeepingLookup(v, t, o, h) ==
  LET shown == TextAfter(v, t)
      asks  == shown # "" /\ shown # Label(v)
  IN /\ value' = v /\ text' = shown /\ open' = o
     /\ lookup' = IF lookup = NoLookup /\ o /\ asks THEN [phase |-> "waiting", q |-> shown] ELSE lookup
     /\ hits' = IF o /\ ~asks THEN <<>> ELSE h

(***************************************************************************)
(* An event sets the value to v, the text to t, open to o and the          *)
(* suggestions to h; then the effects run: the text follows a new value,   *)
(* and a change of text, open or label aborts the lookup under way and     *)
(* starts the next one if there is anything to look up.                    *)
(***************************************************************************)
Settle(v, t, o, h) ==
  LET shown   == TextAfter(v, t)
      changed == shown # text \/ o # open \/ v # value
      asks    == shown # "" /\ shown # Label(v)
  IN /\ value' = v /\ text' = shown /\ open' = o
     /\ lookup' = CASE ~changed  -> lookup
                    [] o /\ asks -> [phase |-> "waiting", q |-> shown]
                    [] OTHER     -> NoLookup
     /\ hits' = IF changed /\ o /\ ~asks THEN <<>> ELSE h

(* The user edits the text: the value, if any, is dropped. *)
Type(t) ==
  /\ t # text
  /\ Settle(NoStation, t, TRUE, hits)
  /\ UNCHANGED <<active, loading>>

Focus ==
  /\ ~open
  /\ Settle(value, text, TRUE, hits)
  /\ UNCHANGED <<active, loading>>

(* A click outside the box, or Escape while suggestions are shown. *)
Close ==
  /\ open
  /\ Settle(value, text, FALSE, hits)
  /\ UNCHANGED <<active, loading>>

(* A suggestion is chosen: by Enter the active one, by a click any one. *)
Choose(i) ==
  /\ Listed /\ i \in DOMAIN hits
  /\ Settle(hits[i], LabelOf[hits[i]], FALSE, <<>>)
  /\ UNCHANGED <<active, loading>>

(* Arrow keys and the pointer move the active suggestion within the list. *)
Move(i) ==
  /\ Listed /\ i \in DOMAIN hits /\ i # active
  /\ active' = i
  /\ UNCHANGED <<value, text, hits, open, loading, lookup>>

(* The debounce timer: the API is asked. *)
Ask ==
  /\ lookup.phase = "waiting"
  /\ lookup' = [lookup EXCEPT !.phase = "asked"]
  /\ loading' = TRUE
  /\ UNCHANGED <<value, text, hits, open, active>>

Answer ==
  /\ lookup.phase = "asked"
  /\ hits' = Found[lookup.q] /\ active' = 1
  /\ lookup' = NoLookup /\ loading' = FALSE
  /\ UNCHANGED <<value, text, open>>

LookupFails ==
  /\ lookup.phase = "asked"
  /\ hits' = <<>>
  /\ lookup' = NoLookup /\ loading' = FALSE
  /\ UNCHANGED <<value, text, open, active>>

(* The form gives the picker another value: a swap. *)
Outside(v) ==
  /\ Settle(v, text, open, hits)
  /\ UNCHANGED <<active, loading>>

Quiet == Focus \/ Close \/ Ask \/ Answer \/ LookupFails \/ \E i \in DOMAIN hits : Move(i)

(***************************************************************************)
(* What Enter would choose exists, the text always names the station that  *)
(* is passed up, and a lookup under way is for the text in the input: an   *)
(* answer for an older text can no longer replace the list (lines 31-55    *)
(* abort it), whatever order keys, timers and answers come in.             *)
(***************************************************************************)
PickerSound ==
  /\ Listed => active \in DOMAIN hits
  /\ value # NoStation => text = LabelOf[value]
  /\ lookup # NoLookup => open /\ lookup.q = text
=============================================================================

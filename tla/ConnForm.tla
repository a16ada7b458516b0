------------------------------ MODULE ConnForm ------------------------------
(***************************************************************************)
(* The connection form (ui/form.go, ui/enginepicker.go, the form parts of   *)
(* ui/connections.go and ui/ssh.go, ui/pathsuggest.go): an engine is        *)
(* picked, its form is filled in field by field, the picker may be reopened *)
(* with what was typed, the profile may be tested while it is edited, and   *)
(* is saved. A text is empty, good for its field, or bad for it.            *)
(***************************************************************************)
EXTENDS Integers, Sequences, FiniteSets, SequencesExt

CONSTANTS
  Engines,   \* the engines of the picker
  FileBased, \* those that open a file
  InMemory,  \* those of them that need none
  MaxEdits,  \* bound on the edits of a form
  MaxForms,  \* bound on the forms built
  MaxTests   \* bound on the tests

ASSUME FormConstants == InMemory \subseteq FileBased /\ FileBased \subseteq Engines

VARIABLES
  mode,      \* the modal: picker, form or none
  flow,      \* create, edit or duplicate
  goesBack,  \* the picker was opened by ctrl+e
  engine,    \* the hidden field of that name
  vals,      \* the fields; those another engine has are the draft's
  cursor,    \* formModal.cursor
  focused,   \* the text field that receives keys
  submitted, \* enter was pressed once
  err,       \* what the status line says
  sugg,      \* formModal.sugg
  form,      \* the number of the form, its identity
  tests,     \* the tests made: of which form, and whether the result is back
  saved,     \* the profile saved last, and what its form showed
  typed,     \* what the user last entered into each field
  edits      \* edits made so far

formVars == <<mode, flow, goesBack, engine, vals, cursor, focused, submitted, err, sugg,
              form, tests, saved, typed, edits>>

FileFields == <<"name", "color", "color_hex", "file", "options">>
ServerFields == <<"name", "color", "color_hex", "host", "port", "password", "ssh", "ssh_host",
                  "ssh_port", "ssh_auth", "ssh_key", "ssh_secret", "options">>
Fields(e) == IF e \in FileBased THEN FileFields ELSE ServerFields
AllFields == ToSet(FileFields) \cup ToSet(ServerFields)

Bools == {"ssh"}
Selects == {"color", "ssh_auth"}
Texts == AllFields \ (Bools \cup Selects)

\* A name may be another profile's, a path may be a directory's; a secret,
\* a host and a key file cannot be bad.
Entries(f) ==
  CASE f \in Bools -> {"true", "false"}
    [] f = "color" -> {"", "red", "custom"}
    [] f = "ssh_auth" -> {"agent", "key", "password"}
    [] f = "name" -> {"", "good", "taken"}
    [] f = "file" -> {"", "good", "dir/"}
    [] f \in {"port", "ssh_port", "options", "color_hex"} -> {"", "good", "bad"}
    [] OTHER -> {"", "good"}

Blank == [f \in AllFields |-> CASE f \in Bools -> "false" [] f = "ssh_auth" -> "agent" [] OTHER -> ""]
NoProfile == [engine |-> "none"]
NoSugg == [cands |-> <<>>, cycling |-> FALSE, selected |-> 1]

\* A server profile with a tunnel that the configuration holds already.
Stored(e) ==
  [engine |-> e, file |-> "", host |-> "good", name |-> "good", port |-> "good",
   ssh |-> [on |-> TRUE, auth |-> "key", host |-> "good", port |-> "good", key |-> "good"],
   options |-> "", color |-> "red", hex |-> "", secrets |-> {},
   shown |-> [f \in AllFields |-> CASE f \in {"name", "host", "port", "ssh_host", "ssh_port", "ssh_key"} -> "good"
                                     [] f = "ssh" -> "true" [] f = "ssh_auth" -> "key" [] f = "color" -> "red"
                                     [] OTHER -> ""]]

FormInit ==
  /\ flow = "create" /\ goesBack = FALSE
  /\ engine \in Engines
  /\ \/ mode = "picker" /\ saved = NoProfile
     \/ mode = "none" /\ engine \notin FileBased /\ saved = Stored(engine)
  /\ vals = Blank /\ typed = Blank
  /\ cursor = 1 /\ focused = "" /\ submitted = FALSE /\ err = "" /\ sugg = NoSugg
  /\ form = 0 /\ tests = {} /\ edits = 0

-----------------------------------------------------------------------------
(* The fields.                                                             *)

sshEnabled(e, v) == e \notin FileBased /\ v["ssh"] = "true"
sshAuthIs(e, v, a) == sshEnabled(e, v) /\ v["ssh_auth"] = a
sshNeedsSecret(e, v) == sshEnabled(e, v) /\ v["ssh_auth"] \in {"key", "password"}

isVisible(e, v, f) ==
  CASE f = "color_hex" -> v["color"] = "custom"
    [] f \in {"ssh_host", "ssh_port", "ssh_auth"} -> sshEnabled(e, v)
    [] f = "ssh_key" -> sshAuthIs(e, v, "key")
    [] f = "ssh_secret" -> sshNeedsSecret(e, v)
    [] OTHER -> TRUE

\* Those that are shown, of the first k.
visible(e, v) ==
  LET first[k \in 0..Len(Fields(e))] ==
        IF k = 0 THEN <<>>
        ELSE IF isVisible(e, v, Fields(e)[k]) THEN Append(first[k - 1], Fields(e)[k])
        ELSE first[k - 1]
  IN first

visibleFields(e, v) == visible(e, v)[Len(Fields(e))]
Field(e, f) == f \in ToSet(Fields(e))

\* A hidden field has no value, but keeps one.
rawValue(e, v, f) == IF Field(e, f) THEN v[f] ELSE ""
value(e, v, f) == IF Field(e, f) /\ isVisible(e, v, f) THEN v[f] ELSE ""

current == LET vis == visibleFields(engine, vals) IN vis[cursor]

\* requiredField, validPort, and the validators of the options, the colour
\* and the name of a file's profile.
validate(e, v, f) ==
  CASE f = "name" -> v["name"] # "" \/ rawValue(e, v, "file") # ""
    [] f \in {"host", "ssh_host"} -> v[f] # ""
    [] f = "file" -> v[f] # "" \/ e \in InMemory
    [] OTHER -> v[f] # "bad"

Invalid(e, v) ==
  {i \in DOMAIN visibleFields(e, v) : ~validate(e, v, visibleFields(e, v)[i])}
firstInvalid(e, v) == CHOOSE i \in Invalid(e, v) : \A j \in Invalid(e, v) : i <= j

Focus(f) == IF f \in Texts THEN f ELSE ""
At(i) == cursor' = i /\ focused' = Focus(visibleFields(engine, vals)[i])

suggesting == current = "file" /\ sugg.cands # <<>>

-----------------------------------------------------------------------------
(* The draft between the picker and a form.                                *)

\* An engine's form is built from it. A new profile's host starts as
\* localhost.
newConnectionFormDraft(e, d, t) ==
  LET create == flow' # "edit"
      Host(x) == [x EXCEPT !["host"] = IF create /\ e \notin FileBased /\ d["host"] = "" THEN "good" ELSE @]
      v == Host(d)
  IN /\ form < MaxForms /\ form' = form + 1
     /\ mode' = "form" /\ engine' = e
     /\ vals' = v /\ typed' = Host(t)
     /\ IF create /\ e \in FileBased
        THEN cursor' = (IF v["color"] = "custom" THEN 4 ELSE 3) /\ focused' = "file"
        ELSE cursor' = 1 /\ focused' = "name"
     /\ submitted' = FALSE /\ err' = "" /\ sugg' = NoSugg

\* What is read back. The custom colour is one value with the choice, and
\* an SSH section with nothing in it is none.
snapshotDraft(v) ==
  LET hex == IF v["color"] = "custom" THEN v["color_hex"] ELSE ""
      color == IF v["color"] = "custom" /\ hex = "" THEN "" ELSE v["color"]
      empty == engine \notin FileBased /\ v["ssh"] = "false" /\ \A f \in {"ssh_host", "ssh_port", "ssh_key"} : v[f] = ""
  IN [v EXCEPT !["color"] = color, !["color_hex"] = hex,
               !["ssh_auth"] = IF empty THEN "agent" ELSE @]

OpenPicker(back) ==
  /\ mode' = "picker" /\ goesBack' = back
  /\ vals' = snapshotDraft(vals)
  /\ cursor' = 1 /\ focused' = "" /\ sugg' = NoSugg

\* A copy's form, once rebuilt, is one of a new profile.
Rebuild(e) ==
  /\ flow' = IF flow = "duplicate" THEN "create" ELSE flow
  /\ newConnectionFormDraft(e, vals, typed)

Pick(e) ==
  /\ mode = "picker"
  /\ Rebuild(e)
  /\ UNCHANGED <<goesBack, tests, saved, edits>>

\* esc: back to the form that ctrl+e left, or out.
LeavePicker ==
  /\ mode = "picker"
  /\ IF goesBack THEN Rebuild(engine)
     ELSE /\ mode' = "none"
          /\ UNCHANGED <<flow, engine, form, vals, typed, cursor, focused, submitted, err, sugg>>
  /\ UNCHANGED <<goesBack, tests, saved, edits>>

ChangeEngine ==
  /\ mode = "form"
  /\ OpenPicker(TRUE)
  /\ UNCHANGED <<flow, engine, submitted, err, form, tests, saved, typed, edits>>

\* esc drops the suggestions first; a new profile's form goes back to the
\* picker.
Cancel ==
  /\ mode = "form"
  /\ IF suggesting
     THEN sugg' = NoSugg /\ UNCHANGED <<mode, goesBack, vals, cursor, focused>>
     ELSE IF flow = "create" THEN OpenPicker(FALSE)
     ELSE mode' = "none" /\ sugg' = NoSugg /\ UNCHANGED <<goesBack, vals, cursor, focused>>
  /\ UNCHANGED <<flow, engine, submitted, err, form, tests, saved, typed, edits>>

-----------------------------------------------------------------------------
(* The keys of a form.                                                     *)

\* tab, shift+tab and the arrows wrap; the wheel does not. All of them drop
\* the suggestions.
move(delta) ==
  LET n == Len(visibleFields(engine, vals))
  IN At(((cursor - 1 + delta + n) % n) + 1) /\ sugg' = NoSugg
scroll(delta) ==
  LET n == Len(visibleFields(engine, vals))
      to == cursor + delta
  IN At(IF to > n THEN n ELSE IF to < 1 THEN 1 ELSE to) /\ sugg' = NoSugg

\* Only of the path in the field under the cursor.
refresh(v) == \E cs \in {<<>>, <<"good">>, <<"dir/", "good">>} :
                sugg' = [cands |-> IF v = "" THEN <<>> ELSE cs, cycling |-> FALSE, selected |-> 1]

Enter(f, v) == vals' = [vals EXCEPT ![f] = v] /\ typed' = [typed EXCEPT ![f] = v]
Edit == edits < MaxEdits /\ edits' = edits + 1

\* A key of the field under the cursor: a select steps, a bool flips, a text
\* is typed or pasted.
Change ==
  /\ mode = "form" /\ Edit
  /\ \E v \in Entries(current) \ {vals[current]} :
       /\ Enter(current, v)
       /\ IF current = "file" THEN refresh(v) ELSE sugg' = NoSugg
  /\ UNCHANGED <<mode, flow, goesBack, engine, cursor, focused, submitted, err, form, tests, saved>>

\* tab extends the path, then steps through the candidates.
complete ==
  IF Len(sugg.cands) > 1
  THEN \/ sugg' = [sugg EXCEPT !.cycling = TRUE, !.selected = 1] /\ Enter("file", sugg.cands[1])
       \/ refresh(vals["file"]) /\ UNCHANGED <<vals, typed>>
  ELSE refresh(sugg.cands[1]) /\ Enter("file", sugg.cands[1])

\* The arrows walk the list, from the end they point away from.
navigate(delta) ==
  LET n == Len(sugg.cands)
      to == IF sugg.cycling THEN ((sugg.selected - 1 + delta + n) % n) + 1 ELSE IF delta < 0 THEN n ELSE 1
  IN sugg' = [sugg EXCEPT !.cycling = TRUE, !.selected = to] /\ Enter("file", sugg.cands[to])

\* A file moves on to the next field, a directory is descended into.
acceptSuggestion ==
  LET v == sugg.cands[IF sugg.cycling THEN sugg.selected ELSE 1]
  IN /\ Enter("file", v)
     /\ IF v = "dir/" THEN refresh(v) /\ UNCHANGED <<cursor, focused>> ELSE move(1)

SuggestKey ==
  /\ mode = "form" /\ suggesting /\ Edit
  /\ \/ ~sugg.cycling /\ complete /\ UNCHANGED <<cursor, focused>>
     \/ (navigate(1) \/ navigate(-1)) /\ UNCHANGED <<cursor, focused>>
     \/ acceptSuggestion
  /\ UNCHANGED <<mode, flow, goesBack, engine, submitted, err, form, tests, saved>>

MoveKey ==
  /\ mode = "form"
  /\ \/ ~suggesting /\ (move(1) \/ move(-1))
     \/ scroll(1) \/ scroll(-1)
  /\ UNCHANGED <<mode, flow, goesBack, engine, vals, submitted, err, form, tests, saved, typed, edits>>

-----------------------------------------------------------------------------
(* Saving and testing.                                                     *)

\* A section that was never filled in is no section; what is hidden while
\* the tunnel is off is kept.
toSSH(v) ==
  IF rawValue(engine, v, "ssh") # "true" /\ \A f \in {"ssh_host", "ssh_port", "ssh_key"} : rawValue(engine, v, f) = ""
  THEN [on |-> FALSE, auth |-> "agent", host |-> "", port |-> "", key |-> ""]
  ELSE [on |-> rawValue(engine, v, "ssh") = "true", auth |-> rawValue(engine, v, "ssh_auth"),
        host |-> rawValue(engine, v, "ssh_host"), port |-> rawValue(engine, v, "ssh_port"),
        key |-> rawValue(engine, v, "ssh_key")]

\* Plausible bug: the secret of a hidden field is filed in the keyring.
toConnectionHidden(v) ==
  [engine |-> engine, file |-> value(engine, v, "file"), host |-> value(engine, v, "host"),
   name |-> IF v["name"] # "" THEN v["name"] ELSE "good",
   port |-> IF engine \in FileBased THEN "" ELSE IF value(engine, v, "port") = "" THEN "good" ELSE value(engine, v, "port"),
   ssh |-> toSSH(v), options |-> rawValue(engine, v, "options"),
   color |-> value(engine, v, "color"), hex |-> value(engine, v, "color_hex"),
   secrets |-> {f \in {"password", "ssh_secret"} : rawValue(engine, v, f) # ""}, shown |-> v]

\* The profile, and the secrets for the keyring: those that are shown and
\* were typed. An empty port is the engine's.
toConnection(v) ==
  [engine |-> engine, file |-> value(engine, v, "file"), host |-> value(engine, v, "host"),
   name |-> IF v["name"] # "" THEN v["name"] ELSE "good",
   port |-> IF engine \in FileBased THEN "" ELSE IF value(engine, v, "port") = "" THEN "good" ELSE value(engine, v, "port"),
   ssh |-> toSSH(v), options |-> rawValue(engine, v, "options"),
   color |-> value(engine, v, "color"), hex |-> value(engine, v, "color_hex"),
   secrets |-> {f \in {"password", "ssh_secret"} : value(engine, v, f) # ""}, shown |-> v]

\* Refused by the parsers before it is validated: a port or options that do
\* not parse, the hidden port of a tunnel that is off among them.
Parses(v) ==
  /\ value(engine, v, "port") # "bad" /\ rawValue(engine, v, "ssh_port") # "bad"
  /\ v["options"] # "bad" /\ value(engine, v, "color_hex") # "bad"

Validate(c) ==
  /\ c.name # ""
  /\ IF c.engine \in FileBased THEN c.file # "" \/ c.engine \in InMemory
     ELSE c.host # "" /\ (c.ssh.on => c.ssh.host # "" /\ c.ssh.auth \in {"agent", "key", "password"})

\* Upsert refuses the name of another profile.
Upserts(c) == c.name # "taken"

\* enter without suggestions, or ctrl+enter.
Submit ==
  /\ mode = "form"
  /\ submitted' = TRUE
  /\ IF Invalid(engine, vals) # {}
     THEN /\ At(firstInvalid(engine, vals)) /\ sugg' = NoSugg
          /\ err' = "invalid" /\ UNCHANGED <<mode, saved>>
     ELSE IF ~Parses(vals) \/ ~Validate(toConnection(vals)) \/ ~Upserts(toConnection(vals))
     THEN err' = "refused" /\ UNCHANGED <<mode, saved, cursor, focused, sugg>>
     ELSE /\ saved' = toConnection(vals) /\ mode' = "none"
          /\ err' = "" /\ sugg' = NoSugg /\ UNCHANGED <<cursor, focused>>
  /\ UNCHANGED <<flow, goesBack, engine, vals, form, tests, typed, edits>>

\* ctrl+t: dialled as the form shows it.
Test ==
  /\ mode = "form" /\ Cardinality(tests) < MaxTests
  /\ IF Parses(vals) /\ Validate(toConnection(vals))
     THEN err' = "testing" /\ tests' = tests \cup {[form |-> form, back |-> FALSE]}
     ELSE err' = "refused" /\ tests' = tests
  /\ UNCHANGED <<mode, flow, goesBack, engine, vals, cursor, focused, submitted, sugg, form, saved, typed, edits>>

\* Its result goes to the form that asked for it, where that is still open;
\* an error the form shows stands before a success.
connTested(f) ==
  /\ ~f.back /\ tests' = (tests \ {f}) \cup {[f EXCEPT !.back = TRUE]}
  /\ IF mode = "form" /\ form = f.form THEN err' \in {IF err = "testing" THEN "tested" ELSE err, "refused"}
     ELSE UNCHANGED err
  /\ UNCHANGED <<mode, flow, goesBack, engine, vals, cursor, focused, submitted, sugg, form, saved, typed, edits>>

\* What a profile's own form shows.
draftFrom(c) ==
  [f \in AllFields |->
     CASE f = "name" -> c.name [] f = "file" -> c.file [] f = "host" -> c.host [] f = "port" -> c.port
       [] f = "options" -> c.options
       [] f = "color" -> IF c.color = "custom" /\ c.hex = "" THEN "" ELSE c.color
       [] f = "color_hex" -> c.hex
       [] f = "ssh" -> IF c.ssh.on THEN "true" ELSE "false"
       [] f = "ssh_host" -> c.ssh.host [] f = "ssh_port" -> c.ssh.port [] f = "ssh_auth" -> c.ssh.auth
       [] f = "ssh_key" -> c.ssh.key
       [] OTHER -> ""]

\* e and y on the profile that was saved; the copy has a name of its own.
OpenSaved(how) ==
  /\ mode = "none" /\ saved # NoProfile
  /\ flow' = how /\ goesBack' = FALSE
  /\ newConnectionFormDraft(saved.engine, draftFrom(saved), draftFrom(saved))
  /\ UNCHANGED <<tests, saved, edits>>

FormNext ==
  \/ \E e \in Engines : Pick(e)
  \/ LeavePicker \/ ChangeEngine \/ Cancel \/ Change \/ SuggestKey \/ MoveKey \/ Submit \/ Test
  \/ \E f \in tests : connTested(f)
  \/ \E how \in {"edit", "duplicate"} : OpenSaved(how)

FormSpec == FormInit /\ [][FormNext]_formVars

-----------------------------------------------------------------------------
(* The cursor is on a visible field, which alone receives text; completion  *)
(* is of that field.                                                       *)
CursorOnField ==
  mode = "form" =>
    /\ cursor \in DOMAIN visibleFields(engine, vals)
    /\ focused = Focus(current)
    /\ sugg.cands # <<>> => current = "file"

(* What is saved is complete, has no secret that the form did not show, and *)
(* its own form shows again what was saved.                                *)
SavedAsShown ==
  saved # NoProfile =>
    /\ Validate(saved)
    /\ "ssh_secret" \in saved.secrets => saved.ssh.on /\ saved.ssh.auth # "agent"
    /\ saved.secrets # {} => saved.engine \notin FileBased
    /\ \A f \in ToSet(Fields(saved.engine)) \ {"password", "ssh_secret"} :
         saved.shown[f] # "" /\ (f = "color_hex" => saved.color = "custom") /\ ~(f = "color" /\ saved.hex = "") =>
           draftFrom(saved)[f] = saved.shown[f] \/ (f = "ssh_auth" /\ ~saved.ssh.on)

(* Changing the engine loses nothing that was typed, save a colour that is  *)
(* not the chosen one and the method of an SSH section that is empty.       *)
InputSurvives ==
  \A f \in AllFields \ {"color", "color_hex", "ssh_auth"} : vals[f] = typed[f]

(* A form says that its profile was tested only when a test of that form    *)
(* was made, whatever forms came and went meanwhile.                        *)
OwnTest ==
  mode = "form" /\ err \in {"testing", "tested"} => [form |-> form, back |-> err = "tested"] \in tests

(* However the form is walked, completed, rebuilt for another engine,       *)
(* tested and submitted, its cursor stays on a field, what is typed stays   *)
(* and what is saved is what was shown (formModal.update, snapshotDraft,    *)
(* toConnection).                                                          *)
FormTruth == CursorOnField /\ SavedAsShown /\ InputSurvives /\ OwnTest
=============================================================================

----------------------------- MODULE ConfigForm -----------------------------
(***************************************************************************)
(* A page of the control panel: FormInput items bound to FieldControllers, *)
(* the FormController that validates and commits them, the Config objects  *)
(* they are written to, and configs.json, saved half a second later and    *)
(* read by the next process that starts.                                   *)
(*                                                                         *)
(* Sizes derived from a scale (Padding, Spacing, ...) are read-only        *)
(* properties: saved with the others, skipped when the file is read.       *)
(***************************************************************************)
EXTENDS Naturals, Sequences, FiniteSets

CONSTANTS Fields,     \* names of stored properties
          Scales,     \* values of the scale of a class of sizes, in tenths
          Others,     \* values of the other fields
          Validator,  \* [Fields -> {"none", "cpp", "js"}]
          Accepted,   \* values the validators accept
          KeepsOld,   \* fields without RESET, which a file that lacks them leaves alone
          MaxTyped    \* bound: user actions

\* The classes of derived sizes: the factors of their bindings.
PaddingSizes == [xxs |-> 4, xs |-> 5, sm |-> 7, md |-> 10, lg |-> 12, xl |-> 15, xxl |-> 20]
SpacingSizes == [xxs |-> 4, xs |-> 9, sm |-> 10, md |-> 12, lg |-> 14, xl |-> 17, xxl |-> 20]
RoundingSizes == [xs |-> 4, sm |-> 8, md |-> 16, lg |-> 24, full |-> 1000]
FontSizes == [xxs |-> 8, xs |-> 9, sm |-> 10, md |-> 12, lg |-> 14, xl |-> 17, xxl |-> 20]
Factors == [padding |-> PaddingSizes, spacing |-> SpacingSizes, rounding |-> RoundingSizes,
            fontSize |-> FontSizes]

\* Each of these classes stores its own scale; the fields named after them stand for it.
ScaleFields == DOMAIN Factors \cap Fields

SizesOf(config) ==
  [f \in ScaleFields |-> [k \in DOMAIN Factors[f] |-> (Factors[f][k] * config[f]) \div 10]]

Domain(f) == IF f \in ScaleFields THEN Scales ELSE Others
FormDefaults == [f \in Fields |-> IF f \in ScaleFields THEN 10 ELSE CHOOSE v \in Others : TRUE]

\* A file maps the keys it has to values, and holds a copy of the derived properties.
NoConfig == [kind |-> "absent", json |-> <<>>, sizes |-> <<>>]
TornConfig == [kind |-> "torn", json |-> <<>>, sizes |-> <<>>]
FileOf(json, derived) == [kind |-> "json", json |-> json, sizes |-> derived]

VARIABLES
  formConfig,      \* the stored properties of the panel's Config singleton
  sizes,           \* its derived properties
  formFile,        \* configs.json
  initial,     \* FieldController::m_initialValue
  value,       \* FieldController::m_value
  item,        \* "value" of the QML item the FormInput wraps
  dirty,       \* FieldController::m_isDirty
  formDirty,   \* FormController::m_isDirty
  formError,   \* FormController::m_validationError
  formTimer,   \* Config::m_saveTimer runs
  isSaving,    \* Config::m_isSaving
  running,     \* the panel's process runs
  writing,     \* the file is truncated and not written yet
  saveFailed,  \* history: the last save could not open the file
  typed        \* counts, for MaxTyped

fieldVars == <<initial, value, dirty>>
inputVars == <<item>>
pageVars == <<fieldVars, inputVars, formDirty, formError>>
configVars == <<formConfig, sizes, formTimer, isSaving>>
formVars == <<pageVars, configVars, formFile, running, writing, saveFailed, typed>>

\* setInitialValue, setInputItem, attemptConnectFields: the inputs show the initial values.
WriteToInputs(c) == item' = c

\* modelParseProperties and resetState.
FormIs(c) ==
  /\ initial' = c /\ value' = c
  /\ WriteToInputs(c)
  /\ dirty' = [f \in Fields |-> FALSE]
  /\ formDirty' = FALSE

FormInit ==
  /\ formConfig = FormDefaults /\ initial = FormDefaults /\ value = FormDefaults /\ item = FormDefaults
  /\ sizes = SizesOf(FormDefaults)
  /\ formFile = NoConfig
  /\ dirty = [f \in Fields |-> FALSE]
  /\ formDirty = FALSE /\ formError = FALSE
  /\ formTimer = FALSE /\ isSaving = FALSE
  /\ running = TRUE /\ writing = FALSE /\ saveFailed = FALSE
  /\ typed = 0

-----------------------------------------------------------------------------
\* serializeFromJson over the stored properties.
Read(json, old) ==
  [f \in Fields |-> IF f \in DOMAIN json THEN json[f] ELSE IF f \in KeepsOld THEN old[f] ELSE FormDefaults[f]]

\* Mutant: read-only properties are written too, which replaces their bindings.
SizesReadFromFile(f, c) == IF f.kind = "json" THEN f.sizes ELSE SizesOf(c)

\* The derived properties after a read: not writable, they keep their bindings.
SizesRead(f, c) == SizesOf(c)

\* A process starts: readFromFile, which takes what is no JSON object for no file.
Load ==
  /\ ~running /\ typed < MaxTyped
  /\ running' = TRUE
  /\ LET c == IF formFile.kind = "json" THEN Read(formFile.json, FormDefaults) ELSE FormDefaults IN
     /\ formConfig' = c
     /\ sizes' = SizesRead(formFile, c)
     /\ FormIs(c)
  /\ formError' = FALSE
  /\ UNCHANGED <<formFile, formTimer, isSaving, writing, saveFailed, typed>>

\* The panel is closed: a timer that runs, or half a write, goes with it.
Quit ==
  /\ running
  /\ running' = FALSE
  /\ formTimer' = FALSE /\ isSaving' = FALSE /\ writing' = FALSE
  /\ UNCHANGED <<pageVars, formConfig, sizes, formFile, saveFailed, typed>>

\* Somebody edits the file by hand.
EditFile(json, p) ==
  /\ ~running /\ typed < MaxTyped
  /\ typed' = typed + 1
  /\ formFile' = FileOf(json, p)
  /\ UNCHANGED <<pageVars, configVars, running, writing, saveFailed>>

\* delegateSetIsDirty
AnyDirty(d) == \E f \in Fields : d[f]

\* FieldController::setValue and setIsDirty
SetValue(f, v) ==
  /\ value' = [value EXCEPT ![f] = v]
  /\ dirty' = [dirty EXCEPT ![f] = (v # initial[f])]
  /\ formDirty' = AnyDirty(dirty')

\* The user changes an input: rerouteValue.
Type(f, v) ==
  /\ running /\ ~writing /\ typed < MaxTyped /\ v # item[f]
  /\ typed' = typed + 1
  /\ item' = [item EXCEPT ![f] = v]
  /\ SetValue(f, v)
  /\ UNCHANGED <<configVars, formFile, initial, formError, running, writing, saveFailed>>

\* FontValidator, and the JS functions of the pages.
Accepts(v) == v \in Accepted

\* triggerValidation.  Only a failing JS validator stops the commit; a failing C++ one, and
\* a JS one that accepts, make the field a value-less one that is left out.
Refused(f) == dirty[f] /\ Validator[f] = "js" /\ ~Accepts(value[f])
Assigned(f) == dirty[f] /\ (Validator[f] = "none" \/ (Validator[f] = "cpp" /\ Accepts(value[f])))

\* commitValues, commitSave and resetForm, which puts the model's values back in the inputs.
Commit ==
  /\ running /\ ~writing
  /\ IF \E f \in Fields : Refused(f)
       THEN /\ formError' = TRUE
            /\ UNCHANGED <<configVars, fieldVars, inputVars, formDirty>>
       ELSE LET c == [f \in Fields |-> IF Assigned(f) THEN value[f] ELSE formConfig[f]] IN
            /\ formConfig' = c
            /\ sizes' = SizesOf(c)
            /\ FormIs(c)
            /\ formError' = FALSE
            /\ formTimer' = TRUE /\ isSaving' = TRUE
  /\ UNCHANGED <<formFile, running, writing, saveFailed, typed>>

\* resetForm, from the button: the inputs go back to what the objects have.
FormReset ==
  /\ running /\ ~writing
  /\ FormIs(formConfig)
  /\ UNCHANGED <<configVars, formFile, formError, running, writing, saveFailed, typed>>

\* The save timer: QFile truncates configs.json and the text follows, or it does not open.
FormSaveTimeout ==
  /\ running /\ formTimer
  /\ formTimer' = FALSE
  /\ \/ /\ writing' = TRUE /\ formFile' = TornConfig /\ saveFailed' = FALSE
        /\ UNCHANGED isSaving
     \/ /\ isSaving' = FALSE /\ saveFailed' = TRUE
        /\ UNCHANGED <<writing, formFile>>
  /\ UNCHANGED <<pageVars, formConfig, sizes, running, typed>>

SaveWritten ==
  /\ writing
  /\ writing' = FALSE /\ isSaving' = FALSE
  /\ formFile' = FileOf(formConfig, sizes)
  /\ UNCHANGED <<pageVars, formConfig, sizes, formTimer, running, saveFailed, typed>>

FormNext ==
  \/ Load \/ Quit \/ Commit \/ FormReset \/ FormSaveTimeout \/ SaveWritten
  \/ \E f \in Fields : \E v \in Domain(f) : Type(f, v)
  \/ \E kept \in SUBSET Fields, s \in Scales :
       EditFile([f \in kept |-> IF f \in ScaleFields THEN s ELSE FormDefaults[f]], SizesOf(FormDefaults))

FormSpec == FormInit /\ [][FormNext]_formVars

-----------------------------------------------------------------------------
\* The page is the truth about the configuration: a field is marked dirty exactly when its
\* input differs from the object, the form is dirty exactly when a field is, the derived
\* sizes follow the scale whatever the file says of them, and isSaving tells whether
\* a change is still on its way to the file.
FormTruthful ==
  running =>
    /\ \A f \in Fields : /\ dirty[f] = (item[f] # formConfig[f])
                         /\ value[f] = item[f] /\ initial[f] = formConfig[f]
    /\ formDirty = AnyDirty(dirty)
    /\ sizes = SizesOf(formConfig)
    /\ isSaving = (formTimer \/ writing)
=============================================================================

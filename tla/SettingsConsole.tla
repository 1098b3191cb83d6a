---------------------------- MODULE SettingsConsole ----------------------------
(***************************************************************************)
(* The settings page of the administration console: one section's panel in      *)
(* every open page, with the draft its operator types, and the request that      *)
(* saves or tests the draft, down to the section's row.                          *)
(*                                                                               *)
(* The fields of a section stand for all that are handled as they are; a value   *)
(* is a number, 0 a blank input, a null or an absent column.  The settings cache *)
(* of the processes is RuntimeSettings': here it is the rows it may still serve. *)
(***************************************************************************)
EXTENDS Naturals, FiniteSets

CONSTANTS
    Consoles,            \* open settings pages
    MaxSetting,          \* per field: its values, 1 to this
    Environment,         \* per field: the environment's fallback, 0 for none
    MaxSettingsRevision  \* per section: bound on the revision of its row

SectionFields == [ site    |-> {"siteName", "siteUrl"},
                   smtp    |-> {"host", "tlsMode", "password"},
                   storage |-> {"bucket", "secretAccessKey"},
                   runtime |-> {"maxImageBytes", "maxTotalBytes"} ]

SectionId == {"site", "smtp", "storage", "runtime"}
SecretFields == {"password", "secretAccessKey"}       \* write-only
NeverNull == {"tlsMode", "maxImageBytes", "maxTotalBytes"}
AllFields == UNION {SectionFields[s] : s \in SectionId}

ASSUME ConsoleAssumption ==
    /\ MaxSetting \in [AllFields -> Nat] /\ MaxSettingsRevision \in [SectionId -> Nat \ {0}]
    /\ Environment \in [AllFields -> Nat]
    /\ \A f \in AllFields : Environment[f] <= MaxSetting[f]

VARIABLES
    shownSection,    \* the section this behaviour is about
    stored,          \* its row
    replaced,        \* rows replaced since config_revision last moved
    panel,           \* per page: the panel of the section
    saving           \* per page: the request under way

consoleVars == <<shownSection, stored, replaced, panel, saving>>

Fields == SectionFields[shownSection]
Tested == shownSection \in {"smtp", "storage"}
Revisions == 1 .. MaxSettingsRevision[shownSection]

FieldValues(f) == IF f \in NeverNull THEN 1 .. MaxSetting[f] ELSE 0 .. MaxSetting[f]

\* What an input holds: a select is never blank.
InputValues(f) == IF f = "tlsMode" THEN 1 .. MaxSetting[f] ELSE 0 .. MaxSetting[f]
AnyValue == UNION {0 .. MaxSetting[f] : f \in AllFields}
Values == {v \in [Fields -> AnyValue] : \A f \in Fields : v[f] \in FieldValues(f)}
ConnectionStatus == {"not_configured", "configured", "verified"}
Row == [value : Values, status : ConnectionStatus, revision : Revisions]
Bodies == UNION {[sent -> AnyValue] : sent \in SUBSET Fields}
NoBody == [f \in {} |-> 0]
NoSaving == [pc |-> "none", test |-> FALSE, input |-> NoBody, value |-> NoBody, revision |-> 1]

\* What setup/config and the answers carry: of a secret, that there is one.
Dto(value, row) ==
    [ value |-> [f \in Fields |-> IF f \notin SecretFields THEN value[f]
                                  ELSE IF row.value[f] = 0 THEN 0 ELSE 1],
      status |-> row.status, revision |-> row.revision ]

\* resolveSiteSettings and its siblings: the row first, then the environment.
Resolved(row) == [f \in Fields |-> IF row.value[f] # 0 THEN row.value[f] ELSE Environment[f]]
ResolvedDto(row) == Dto(Resolved(row), row)

\* An entry of a settings cache is served until the revision moves.
Servable == {stored} \cup replaced

\* A secret is never loaded into its input.
DraftOf(dto) == [f \in Fields |-> IF f \in SecretFields THEN 0 ELSE dto.value[f]]

Opened(dto) == [ latest |-> dto, baseline |-> dto, draft |-> DraftOf(dto),
                 pending |-> FALSE, asking |-> FALSE ]

Panel == [ latest : Row, baseline : Row, draft : [Fields -> AnyValue],
           pending : BOOLEAN, asking : BOOLEAN ]

Saving == [ pc : {"none", "merge", "write", "mark", "answer", "failed", "loaded"},
            test : BOOLEAN, input : Bodies, value : Bodies, revision : Revisions ]

ConsoleTypeOK ==
    /\ shownSection \in SectionId
    /\ stored \in Row /\ replaced \in SUBSET Row
    /\ panel \in [Consoles -> Panel]
    /\ saving \in [Consoles -> Saving]

\* The row as the migrations insert it, and the pages as they opened on it.
ConsoleInit ==
    /\ shownSection \in SectionId
    /\ stored = [ value |-> [f \in Fields |-> IF f \in NeverNull THEN 1 ELSE 0],
                  status |-> "not_configured", revision |-> 1 ]
    /\ replaced = {}
    /\ panel = [c \in Consoles |-> Opened(ResolvedDto(stored))]
    /\ saving = [c \in Consoles |-> NoSaving]
-----------------------------------------------------------------------------
(* The panel                                                                   *)
Blank(c, f) == panel[c].draft[f] = 0

\* Mutant: every section but the site's submits the fields that were changed.
ChangedFields(c) ==
    IF shownSection = "site" THEN Fields
    ELSE {f \in Fields : ~ Blank(c, f) /\ panel[c].draft[f] # panel[c].baseline.value[f]}

\* Site and runtime submit every field; the others leave out what is blank, and the TLS
\* mode unless it was changed.
SentFields(c) ==
    IF ~ Tested THEN Fields
    ELSE {f \in Fields : /\ ~ Blank(c, f)
                         /\ f = "tlsMode" => panel[c].draft[f] # panel[c].baseline.value[f]}

\* Mutant: a blank is submitted as it is.
BlankSent(c) == [f \in SentFields(c) |-> panel[c].draft[f]]

\* A blank of the runtime section is the value that was loaded; the site's is a null.
ToInput(c) ==
    [f \in SentFields(c) |-> IF shownSection = "runtime" /\ Blank(c, f)
                               THEN panel[c].baseline.value[f] ELSE panel[c].draft[f]]

\* adminSettingsDraftChanged: the loaded settings hold no secret to compare with.
Dirty(c) ==
    \E f \in DOMAIN ToInput(c) :
        f \in SecretFields \/ ToInput(c)[f] # panel[c].baseline.value[f]

\* hasNewerAdminSettingsRevision
NewerRevision(c) == panel[c].latest.revision > panel[c].baseline.revision

\* A total cap below that of one image: refused in the form, and by the API when the
\* request holds both.
TotalBelowImage(value) ==
    /\ {"maxImageBytes", "maxTotalBytes"} \subseteq DOMAIN value
    /\ value["maxTotalBytes"] < value["maxImageBytes"]

\* Mutant: the fields stay enabled while a request is pending.
NotAsking(c) == ~ panel[c].asking

\* The fieldset is disabled while a request is pending, and the dialog is modal.
Editable(c) == ~ panel[c].pending /\ ~ panel[c].asking

TypeInto(c, f, v) ==
    /\ Editable(c)
    /\ panel' = [panel EXCEPT ![c].draft[f] = v]
    /\ UNCHANGED <<shownSection, stored, replaced, saving>>

ResetDraft(c) ==
    /\ Editable(c)
    /\ panel' = [panel EXCEPT ![c].draft = DraftOf(panel[c].baseline)]
    /\ UNCHANGED <<shownSection, stored, replaced, saving>>

LoadSettings(c, dto) ==
    panel' = [panel EXCEPT ![c].baseline = dto, ![c].draft = DraftOf(dto), ![c].asking = FALSE]

\* A newer revision is loaded at once, or after a question when the panel has a draft.
ReloadSection(c) ==
    /\ Editable(c) /\ NewerRevision(c)
    /\ \/ ~ Dirty(c) /\ LoadSettings(c, panel[c].latest)
       \/ Dirty(c) /\ panel' = [panel EXCEPT ![c].asking = TRUE]
    /\ UNCHANGED <<shownSection, stored, replaced, saving>>

ConfirmReload(c) ==
    /\ panel[c].asking
    /\ \/ LoadSettings(c, panel[c].latest)
       \/ panel' = [panel EXCEPT ![c].asking = FALSE]
    /\ UNCHANGED <<shownSection, stored, replaced, saving>>

\* The page's query, whenever it is fetched again: no panel takes over what it brings.
Refetch(c) ==
    /\ \E row \in Servable : panel' = [panel EXCEPT ![c].latest = ResolvedDto(row)]
    /\ UNCHANGED <<shownSection, stored, replaced, saving>>

\* The save bar needs a change; a connection is tested with or without one.
SubmitSettings(c, test) ==
    /\ Editable(c) /\ saving[c] = NoSaving
    /\ IF test THEN Tested ELSE Dirty(c)
    /\ shownSection = "site" => ~ Blank(c, "siteName")
    /\ ~ TotalBelowImage(ToInput(c))
    /\ panel' = [panel EXCEPT ![c].pending = TRUE]
    /\ saving' = [saving EXCEPT ![c] =
           [NoSaving EXCEPT !.pc = "merge", !.test = test, !.input = ToInput(c)]]
    /\ UNCHANGED <<shownSection, stored, replaced>>

\* The answer replaces the panel's settings and its draft, and the button stays busy until
\* the page's query has been fetched again.
SaveSucceeds(c, dto) ==
    /\ panel' = [panel EXCEPT ![c].baseline = dto, ![c].draft = DraftOf(dto)]
    /\ saving' = [saving EXCEPT ![c] = [NoSaving EXCEPT !.pc = "loaded"]]

SaveRefetched(c) ==
    /\ saving[c].pc = "loaded"
    /\ panel' = [panel EXCEPT ![c].pending = FALSE]
    /\ saving' = [saving EXCEPT ![c] = NoSaving]
    /\ UNCHANGED <<shownSection, stored, replaced>>

\* An error answer, or none: what was loaded and the draft stay as they are.
SaveFails(c) ==
    /\ saving[c].pc = "failed"
    /\ panel' = [panel EXCEPT ![c].pending = FALSE]
    /\ saving' = [saving EXCEPT ![c] = NoSaving]
    /\ UNCHANGED <<shownSection, stored, replaced>>
-----------------------------------------------------------------------------
(* The API                                                                     *)
SaveAt(c, from, to) ==
    /\ saving[c].pc = from
    /\ saving' = [saving EXCEPT ![c].pc = to]

\* setupSite and setupRuntime write what they were given.
setupPlain(c) ==
    /\ ~ Tested /\ ~ TotalBelowImage(saving[c].input)
    /\ saving[c].pc = "merge"
    /\ saving' = [saving EXCEPT ![c].pc = "write", ![c].value = saving[c].input]
    /\ UNCHANGED <<shownSection, stored, replaced, panel>>

\* Given fields over the settings as resolved; a secret that is not given is kept.
MergedWith(input, current) ==
    [f \in Fields |-> IF f \in DOMAIN input /\ input[f] # 0 THEN input[f] ELSE Resolved(current)[f]]

\* A test has what it needs to connect, and does.
Connects(merged) ==
    IF shownSection = "smtp" THEN merged["host"] # 0
    ELSE merged["bucket"] # 0 /\ merged["secretAccessKey"] # 0

\* setupSmtp, setupSmtpTest, setupStorage, setupStorageTest
setupConnected(c) ==
    /\ Tested /\ saving[c].pc = "merge"
    /\ \E current \in Servable :
         LET merged == MergedWith(saving[c].input, current) IN
         /\ saving[c].test => Connects(merged)
         /\ saving' = [saving EXCEPT ![c].pc = "write", ![c].value = merged]
    /\ UNCHANGED <<shownSection, stored, replaced, panel>>

\* The answer is an error: what is written stays so.
Fails(c, pc) ==
    /\ saving[c].pc = pc
    /\ saving' = [saving EXCEPT ![c] = [NoSaving EXCEPT !.pc = "failed"]]
    /\ UNCHANGED <<shownSection, stored, replaced, panel>>

\* Without access, or with a text, a number or an address that no validator lets through.
RequestRefused(c) == Fails(c, "merge")

\* No connection, or a statement that failed.
RequestFails(c) == \E pc \in {"write", "mark", "answer"} : Fails(c, pc)

\* A column that is not given is kept, and so is the secret when there is none to write.
Written(given) ==
    [f \in Fields |-> IF f \in DOMAIN given /\ (given[f] # 0 \/ f \notin SecretFields)
                        THEN given[f] ELSE stored.value[f]]

StatusOf(c) ==
    IF ~ Tested THEN stored.status
    ELSE IF saving[c].test THEN "verified"
    ELSE IF saving[c].value[IF shownSection = "smtp" THEN "host" ELSE "bucket"] # 0
           THEN "configured" ELSE "not_configured"

\* Mutant: a save does not move the row's revision.
SameRevision == stored.revision

NextRevision == stored.revision + 1

UpdateRow(c) ==
    /\ saving[c].pc = "write"
    /\ saving' = [saving EXCEPT ![c] =
           [NoSaving EXCEPT !.pc = "mark", !.input = saving[c].input,
                            !.revision = IF Tested THEN 1 ELSE stored.revision + 1]]
    /\ stored.revision < MaxSettingsRevision[shownSection]
    /\ stored' = [ value |-> Written(saving[c].value), status |-> StatusOf(c),
                    revision |-> NextRevision ]
    /\ replaced' = replaced \cup {stored}
    /\ UNCHANGED <<shownSection, panel>>

\* markOnboardingSection moves config_revision: no cache serves an older row.
MarkSection(c) ==
    /\ SaveAt(c, "mark", "answer")
    /\ replaced' = {}
    /\ UNCHANGED <<shownSection, stored, panel>>

\* The time to live of the entries.
EntriesExpire ==
    /\ replaced # {} /\ replaced' = {}
    /\ UNCHANGED <<shownSection, stored, panel, saving>>

\* Site and runtime answer with the row they wrote, the others with the settings as they
\* resolve by now.
AnswerSave(c) ==
    /\ saving[c].pc = "answer"
    /\ IF Tested THEN \E row \in Servable : SaveSucceeds(c, ResolvedDto(row))
       ELSE SaveSucceeds(c, [ value |-> saving[c].input, status |-> stored.status,
                              revision |-> saving[c].revision ])
    /\ UNCHANGED <<shownSection, stored, replaced>>

ConsoleNext ==
    \/ EntriesExpire
    \/ \E c \in Consoles :
         \/ \E f \in Fields : \E v \in InputValues(f) : TypeInto(c, f, v)
         \/ ResetDraft(c) \/ ReloadSection(c) \/ ConfirmReload(c) \/ Refetch(c)
         \/ \E test \in BOOLEAN : SubmitSettings(c, test)
         \/ setupPlain(c) \/ setupConnected(c) \/ RequestRefused(c) \/ RequestFails(c)
         \/ UpdateRow(c) \/ MarkSection(c) \/ AnswerSave(c) \/ SaveFails(c) \/ SaveRefetched(c)

ConsoleSpec == ConsoleInit /\ [][ConsoleNext]_consoleVars
-----------------------------------------------------------------------------
\* admin-settings-view.tsx, "a partial submit could store a total cap below the single-image
\* cap that stays in the row": whatever two pages submit, the caps in the row agree.
CapsAgree == shownSection = "runtime" => ~ TotalBelowImage(stored.value)

\* hasNewerAdminSettingsRevision compares revisions alone: where they are equal the settings
\* are, in every panel, cached query and cache entry.  A site that was just saved shows its
\* row, any other panel what the environment adds.
RevisionsTellChanges ==
    /\ \A c \in Consoles :
         /\ panel[c].latest.revision = stored.revision => panel[c].latest = ResolvedDto(stored)
         /\ panel[c].baseline.revision = stored.revision =>
                panel[c].baseline \in {ResolvedDto(stored), Dto(stored.value, stored)}
    /\ \A row \in replaced : row.revision < stored.revision

\* What two pages, the API and its caches make of one section agrees.
SettingsAgree == CapsAgree /\ RevisionsTellChanges

\* admin-settings-view.tsx, a refresh "does not overwrite the draft of any section": a draft
\* goes by the operator's own hand, after a question when settings are loaded over it, or
\* with the answer to a request that carried all of it.
DraftKept(c) ==
    \/ panel'[c].draft = panel[c].draft
    \/ panel[c].pending /\ saving[c].input = ToInput(c)
    \/ /\ ~ panel[c].pending /\ panel'[c].latest = panel[c].latest
       /\ panel'[c].baseline # panel[c].baseline => panel[c].asking \/ ~ Dirty(c)

DraftsKept == [][\A c \in Consoles : DraftKept(c)]_consoleVars
=============================================================================

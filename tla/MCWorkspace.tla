------------------------------ MODULE MCWorkspace ------------------------------
(***************************************************************************)
(* Instances, for TLC, of what a user or an operator works in: the agent of a    *)
(* canvas, the images staged for a generation, the library and the settings page. *)
(* They share no variable, so one of them moves in a behaviour, the one `subject`  *)
(* names.                                                                         *)
(***************************************************************************)
EXTENDS CanvasAgent, ReferenceUploads, LibraryView, SettingsConsole, TLC

VARIABLE subject   \* the part this behaviour is about

workspaceVars == <<subject, vars, referenceVars, libraryVars, consoleVars>>

\* An image that the searched word finds and a video, of two jobs.
MCGallery == << [kind |-> "image", words |-> {"w"}, job |-> 1], [kind |-> "video", words |-> {}, job |-> 2] >>

\* Settings: two values where two panels must be told apart, one where blank or not is all there
\* is.  The smtp section is the storage section but for its TLS mode: the rest of it stays blank.
MCMaxSetting ==
    [f \in AllFields |-> CASE f \in {"host", "password"} -> 0
                         [] f \in {"siteName", "siteUrl", "bucket", "secretAccessKey"} -> 1
                         [] OTHER -> 2]

\* The environment holds a public origin.
MCEnvironment == [f \in AllFields |-> IF f = "siteUrl" THEN 1 ELSE 0]

\* Two saves of the smtp section, one where the drafts have more values.
MCMaxSettingsRevision == [s \in SectionId |-> IF s = "smtp" THEN 3 ELSE 2]

\* Requests and event messages are interchangeable.
Symmetry == Permutations(Runs) \cup Permutations(EventMessages)

WorkspaceInit ==
    /\ subject \in {"canvas", "references", "library", "settings"}
    /\ Init /\ LibraryInit
    /\ ReferenceInit /\ (subject = "references" \/ capacity = 0)
    /\ ConsoleInit /\ (subject = "settings" \/ shownSection = "site")

WorkspaceNext ==
    /\ UNCHANGED subject
    /\ \/ subject = "canvas" /\ Next /\ UNCHANGED <<referenceVars, libraryVars, consoleVars>>
       \/ subject = "references" /\ ReferenceNext /\ UNCHANGED <<vars, libraryVars, consoleVars>>
       \/ subject = "library" /\ LibraryNext /\ UNCHANGED <<vars, referenceVars, consoleVars>>
       \/ subject = "settings" /\ ConsoleNext /\ UNCHANGED <<vars, referenceVars, libraryVars>>

WorkspaceSpec == WorkspaceInit /\ [][WorkspaceNext]_workspaceVars

WorkspaceTypeOK == TypeOK /\ ReferenceTypeOK /\ LibraryTypeOK /\ ConsoleTypeOK
=============================================================================

---------------------------- MODULE PluginCatalog ----------------------------
(***************************************************************************)
(* One uploaded plugin version: its row of provider_plugins, its artifact in  *)
(* the bucket, the requests that install, switch and delete it, and the        *)
(* workers that mirror the row, import the artifact and promote the row.        *)
(*                                                                              *)
(* A stamp stands for updated_at.  An incremental pass may not see a change     *)
(* (its transaction began before the watermark): a pass then does not happen.    *)
(***************************************************************************)
EXTENDS Naturals, FiniteSets

CONSTANTS
    Installers,   \* upload requests for this plugin version
    Loaders,      \* worker processes
    MaxStamp      \* bound on changes of the row

ASSUME PluginAssumption == MaxStamp \in Nat \ {0}

VARIABLES
    plugin,       \* the row
    artifact,     \* whether the artifact is in the bucket
    install,      \* per request: how far installPlugin got
    switching,    \* per request: the status its updatePluginStatus will write
    loader,       \* per worker: its registry, its mirror and the load under way
    imported,     \* some worker imported the artifact
    rejected      \* some worker rejected it and said so in the row

pluginVars == <<plugin, artifact, install, switching, loader, imported, rejected>>

RowStatus == {"none", "pending", "active", "disabled", "failed", "deleted"}
LiveStatus == {"pending", "active", "disabled", "failed"}
PluginRow == [status : RowStatus, stamp : 0 .. MaxStamp]
Loader == [ registered : BOOLEAN, mirror : {"untracked", "active", "disabled", "failed"},
            read : 0 .. MaxStamp, load : {"no", "pending", "active"} ]
FreshLoader == [registered |-> FALSE, mirror |-> "untracked", read |-> 0, load |-> "no"]

PluginTypeOK ==
    /\ plugin \in PluginRow
    /\ artifact \in BOOLEAN
    /\ install \in [Installers -> {"idle", "new", "stored"}]
    /\ switching \in [Installers -> {"no", "active", "disabled"}]
    /\ loader \in [Loaders -> Loader]
    /\ imported \in BOOLEAN /\ rejected \in BOOLEAN

PluginInit ==
    /\ plugin = [status |-> "none", stamp |-> 0]
    /\ artifact = FALSE
    /\ install = [i \in Installers |-> "idle"]
    /\ switching = [i \in Installers |-> "no"]
    /\ loader = [w \in Loaders |-> FreshLoader]
    /\ imported = FALSE /\ rejected = FALSE

Restamped(status) == plugin.stamp < MaxStamp
                     /\ plugin' = [status |-> status, stamp |-> plugin.stamp + 1]
-----------------------------------------------------------------------------
(* installPlugin, updatePluginStatus, deletePlugin                             *)
\* Refused when a row has this id and version, deleted ones included.
CheckDuplicate(i) ==
    /\ install[i] = "idle" /\ plugin.status = "none"
    /\ install' = [install EXCEPT ![i] = "new"]
    /\ UNCHANGED <<plugin, artifact, switching, loader, imported, rejected>>

\* Content-addressed keys: a second upload of the same package writes the same object.
PutArtifact(i) ==
    /\ install[i] = "new"
    /\ \/ artifact' = TRUE /\ install' = [install EXCEPT ![i] = "stored"]
       \/ artifact' = FALSE /\ install' = [install EXCEPT ![i] = "idle"]
    /\ UNCHANGED <<plugin, switching, loader, imported, rejected>>

\* UNIQUE(plugin_id, plugin_version).  When the transaction throws, its commit included,
\* the request deletes the object, also one that another request put as well.
InsertRow(i) ==
    /\ install[i] = "stored"
    /\ install' = [install EXCEPT ![i] = "idle"]
    /\ \/ plugin.status = "none" /\ Restamped("pending") /\ artifact' \in {artifact, FALSE}
       \/ UNCHANGED plugin /\ artifact' \in {artifact, FALSE}
    /\ UNCHANGED <<switching, loader, imported, rejected>>

\* The row is read: failed rows and pending ones are refused.
BeginSwitch(i, status) ==
    /\ switching[i] = "no"
    /\ plugin.status \in {"active", "disabled"} \ {status}
    /\ switching' = [switching EXCEPT ![i] = status]
    /\ UNCHANGED <<plugin, artifact, install, loader, imported, rejected>>

\* UPDATE ... WHERE deleted_at IS NULL AND status IN ('active','disabled')
Switchable == plugin.status \in {"active", "disabled"}

updatePluginStatus(i) ==
    /\ switching[i] # "no"
    /\ switching' = [switching EXCEPT ![i] = "no"]
    /\ IF Switchable THEN Restamped(switching[i]) ELSE UNCHANGED plugin
    /\ UNCHANGED <<artifact, install, loader, imported, rejected>>

\* Unless a model names the plugin.
deletePlugin ==
    /\ plugin.status \in LiveStatus
    /\ Restamped("deleted")
    /\ artifact' \in {artifact, FALSE}
    /\ UNCHANGED <<install, switching, loader, imported, rejected>>
-----------------------------------------------------------------------------
(* runRefresh of one worker, one refresh at a time                             *)
Mirrored(status) == IF status = "pending" THEN "untracked" ELSE status

\* runRefresh reads the row and mirrors its status before it loads anything.
ReadRow(w) ==
    /\ loader[w].load = "no"
    /\ plugin.status \in LiveStatus
    /\ loader' = [loader EXCEPT ![w] =
         [ @ EXCEPT !.mirror = Mirrored(plugin.status), !.read = plugin.stamp,
                    !.load = IF plugin.status \in {"pending", "active"} /\ ~ loader[w].registered
                               THEN plugin.status ELSE "no" ]]
    /\ UNCHANGED <<plugin, artifact, install, switching, imported, rejected>>

\* A full sweep drops the plugins whose rows are gone.
SweepRow(w) ==
    /\ loader[w].load = "no" /\ plugin.status = "deleted"
    /\ loader' = [loader EXCEPT ![w].mirror = "untracked", ![w].read = plugin.stamp]
    /\ UNCHANGED <<plugin, artifact, install, switching, imported, rejected>>

\* Mutant: the promotion does not compare the status.
PromotableUnread(w) == plugin.status \in LiveStatus

\* promotePluginRow: WHERE status = <the one read> AND deleted_at IS NULL
Promotable(w) == plugin.status = loader[w].load

\* The artifact cannot be fetched or cached: the row is left for a later pass.
LoadDeferred(w) ==
    /\ loader[w].load # "no"
    /\ loader' = [loader EXCEPT ![w].load = "no", ![w].mirror = "untracked"]
    /\ UNCHANGED <<plugin, artifact, install, switching, imported, rejected>>

\* Any of the checks of loadPluginRow refuses it, the cap of installed plugins included;
\* the row fails for every worker unless its status has moved.
LoadRejected(w) ==
    /\ loader[w].load # "no"
    /\ IF Promotable(w)
         THEN Restamped("failed") /\ rejected' = TRUE
         ELSE UNCHANGED <<plugin, rejected>>
    /\ loader' = [loader EXCEPT ![w].load = "no",
                                ![w].mirror = IF Promotable(w) THEN "failed" ELSE "untracked"]
    /\ UNCHANGED <<artifact, install, switching, imported>>

\* Registration comes first and cannot be undone; a row that moved meanwhile is forgotten.
LoadSucceeds(w) ==
    /\ loader[w].load # "no" /\ artifact
    /\ imported' = TRUE
    /\ IF loader[w].load = "pending" /\ Promotable(w) THEN Restamped("active") ELSE UNCHANGED plugin
    /\ loader' = [loader EXCEPT ![w].load = "no", ![w].registered = TRUE,
                    ![w].mirror = IF loader[w].load = "active" \/ Promotable(w)
                                    THEN "active" ELSE "untracked"]
    /\ UNCHANGED <<artifact, install, switching, rejected>>

\* The promotion throws: the pass is abandoned after the registration.
PromotionFails(w) ==
    /\ loader[w].load = "pending" /\ artifact
    /\ imported' = TRUE
    /\ loader' = [loader EXCEPT ![w].load = "no", ![w].registered = TRUE]
    /\ UNCHANGED <<plugin, artifact, install, switching, rejected>>

WorkerRestarts(w) ==
    /\ loader[w] # FreshLoader
    /\ loader' = [loader EXCEPT ![w] = FreshLoader]
    /\ UNCHANGED <<plugin, artifact, install, switching, imported, rejected>>

refreshPlugins(w) ==
    \/ ReadRow(w) \/ SweepRow(w)
    \/ LoadDeferred(w) \/ LoadRejected(w) \/ LoadSucceeds(w) \/ PromotionFails(w)
    \/ WorkerRestarts(w)

PluginNext ==
    \/ \E i \in Installers :
         \/ CheckDuplicate(i) \/ PutArtifact(i) \/ InsertRow(i)
         \/ \E s \in {"active", "disabled"} : BeginSwitch(i, s)
         \/ updatePluginStatus(i)
    \/ \E w \in Loaders : refreshPlugins(w)
    \/ deletePlugin

PluginSpec == PluginInit /\ [][PluginNext]_pluginVars
-----------------------------------------------------------------------------
\* resolveMediaPlugin
Runs(w) == loader[w].mirror = "active" /\ loader[w].registered

\* loader.ts: "a row an admin already moved is never overwritten, and a `failed` row is
\* never resurrected": a rejection is final whoever else loads or switches the row; a
\* row becomes active only after an import; and a worker whose last pass saw the row as
\* it is runs the plugin only if the row is active.
PluginStatusHonest ==
    /\ rejected => plugin.status \in {"failed", "deleted"}
    /\ plugin.status \in {"active", "disabled"} => imported
    /\ \A w \in Loaders : loader[w].read = plugin.stamp /\ Runs(w) => plugin.status = "active"
=============================================================================

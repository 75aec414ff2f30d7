------------------------------ MODULE Addons -------------------------------
(* The addon marketplace: AddonStore (catalog, installation, removal),       *)
(* AddonHost (loading the plugins that are installed and enabled) and the    *)
(* list on the settings page of the dashboard, above the directory of each   *)
(* addon on disk.  The AI agent is one of the addons: loading it brings its  *)
(* panel to life, unloading it destroys the panel whatever it is doing.      *)
EXTENDS AiAgent

CONSTANTS
    Ids,          \* addons
    Agent,        \* the id of the AI agent addon
    Bundled,      \* addons the program ships with, installed from a local file
    MaxVersion,   \* versions the repository publishes (bound)
    Budgets       \* how much the user, the agent and faults may do (bound)

ASSUME AddonConstants == Agent \in Ids /\ Bundled \subseteq Ids /\ MaxVersion \in Nat \ {0}

VARIABLES
    store,     \* AddonStore: m_busy, the catalog and the installation under way
    disk,      \* the directory of each addon: version of the manifest and the plugin
    enabled,   \* the setting of each addon
    host,      \* AddonHost: m_installed and m_loaded
    rows,      \* what the list of the settings page offers for each addon
    remote,    \* version in the repository
    torn,      \* history: directories a fault left in pieces
    budget     \* what is left of the bounds

addonVars == <<store, disk, enabled, host, rows, remote, torn>>
vars == <<addonVars, agent, active, budget>>

Versions == 0..MaxVersion
Broken == MaxVersion + 1       \* a plugin that was not written completely
NoFiles == [manifest |-> 0, plugin |-> 0]
NoJob == [id |-> "none", version |-> 0]

Installed(d) == {id \in Ids : d[id].manifest # 0}
Loadable(d, en) ==
    {id \in Installed(d) : en[id] /\ d[id].plugin \in Versions \ {0}}

-----------------------------------------------------------------------------
(* The store.                                                                *)

(* Bundled entries replace those of the repository.                         *)
MergeBundled(s, listed) ==
    [s EXCEPT !.catalog = [id \in Ids |-> IF id \in Bundled THEN 1 ELSE listed[id]],
              !.hasCatalog = @ \/ Bundled # {}]

NothingListed == [id \in Ids |-> 0]

Ended(s) == [s EXCEPT !.busy = "no", !.job = NoJob]

(* The page is rebuilt from the disk, the catalog and m_busy; only the row  *)
(* of an addon that is not installed has an Install button.                  *)
RebuildAddonsList(s, d) ==
    [id \in Ids |->
        CASE id \in Installed(d) -> "installed"
          [] id \notin Installed(d) /\ s.hasCatalog /\ s.catalog[id] # 0 ->
                IF s.busy = "no" THEN "install" ELSE "waiting"
          [] OTHER -> "none"]

MutSyncBeforeReading(h, d, en) ==
    [started |-> TRUE,
     installed |-> [id \in Ids |-> d[id].manifest],
     loaded |-> [id \in Ids |->
                    IF h.installed[id] = 0 \/ ~en[id] THEN 0
                    ELSE IF h.loaded[id] # 0 THEN h.loaded[id]
                    ELSE IF id \in Loadable(d, en) THEN d[id].plugin ELSE 0]]

(* reloadInstalled reads the records, unloads what is not wanted any more   *)
(* and loads what is; what is loaded already is left as it is.               *)
ReloadInstalled(h, d, en) ==
    [started |-> TRUE,
     installed |-> [id \in Ids |-> d[id].manifest],
     loaded |-> [id \in Ids |->
                    IF id \notin Installed(d) \/ ~en[id] THEN 0
                    ELSE IF h.loaded[id] # 0 THEN h.loaded[id]
                    ELSE IF id \in Loadable(d, en) THEN d[id].plugin ELSE 0]]

UnloadAddon(h, id) == [h EXCEPT !.loaded[id] = 0]

(* Plugins are told: the panel of the agent comes and goes with its addon.  *)
TellAgent(h) ==
    agent' = CASE host.loaded[Agent] = 0 /\ h.loaded[Agent] # 0 -> Activated(agent)
               [] host.loaded[Agent] # 0 /\ h.loaded[Agent] = 0 -> Deactivated(agent)
               [] OTHER -> agent

HostBecomes(h) == host' = h /\ TellAgent(h) /\ UNCHANGED active

RefreshCatalog ==
    /\ store.busy = "no"
    /\ \/ /\ store' = [store EXCEPT !.busy = "catalog"]
          /\ UNCHANGED rows
       \/ /\ store' = MergeBundled(store, NothingListed)     \* no valid address
          /\ rows' = IF store'.hasCatalog THEN RebuildAddonsList(store', disk) ELSE rows
    /\ UNCHANGED <<disk, enabled, host, remote, torn, agent, active>>

(* The repository's catalog, or an empty one, under the bundled entries.    *)
CatalogReply ==
    /\ store.busy = "catalog"
    /\ \/ store' = MergeBundled([Ended(store) EXCEPT !.hasCatalog = TRUE], remote)
       \/ store' = MergeBundled(Ended(store), NothingListed)
    /\ rows' = IF store'.hasCatalog THEN RebuildAddonsList(store', disk) ELSE rows
    /\ UNCHANGED <<disk, enabled, host, remote, torn, agent, active>>

(* What the calls of finishInstallFromBytes leave in the directory: the old *)
(* files go first, the plugin is written, the manifest last.                 *)
FilesAfter(outcome, v, old) ==
    CASE outcome = "mismatch" -> old
      [] outcome \in {"noDirectory", "noPlugin", "noManifest"} -> NoFiles
      [] outcome = "short" -> [manifest |-> v, plugin |-> Broken]
      [] OTHER -> [manifest |-> v, plugin |-> v]

MutManifestFirst(v) ==
    {NoFiles, [manifest |-> v, plugin |-> 0], [manifest |-> v, plugin |-> v]}

(* Where a crash may stop the same calls.                                   *)
FilesDuring(v) ==
    {NoFiles, [manifest |-> 0, plugin |-> Broken], [manifest |-> 0, plugin |-> v],
     [manifest |-> v, plugin |-> v]}

InstallFaults == {"mismatch", "noDirectory", "noPlugin", "noManifest", "short"}

FinishInstall(s, id, v, outcome) ==
    /\ disk' = [disk EXCEPT ![id] = FilesAfter(outcome, v, @)]
    /\ store' = Ended(s)
    /\ IF outcome \in {"ok", "short"}
       THEN /\ enabled' = [enabled EXCEPT ![id] = TRUE]
            /\ HostBecomes(ReloadInstalled(host, disk', enabled'))
       ELSE UNCHANGED <<enabled, host, agent, active>>
    /\ torn' = CASE outcome = "short" -> torn \cup {id}
                 [] outcome = "ok" -> torn \ {id}
                 [] OTHER -> torn
    /\ rows' = RebuildAddonsList(store', disk')
    /\ UNCHANGED remote

(* A package that cannot be read or downloaded: the operation ends there.   *)
InstallFails(s) ==
    /\ store' = Ended(s)
    /\ rows' = RebuildAddonsList(store', disk)
    /\ UNCHANGED <<disk, enabled, host, remote, torn, agent, active>>

InstallBundled(id, outcome) ==
    /\ rows[id] = "install" /\ store.busy = "no" /\ store.catalog[id] # 0
    /\ id \in Bundled
    /\ FinishInstall(store, id, store.catalog[id], outcome)

InstallRemote(id) ==
    /\ rows[id] = "install" /\ store.busy = "no" /\ store.catalog[id] # 0
    /\ id \notin Bundled
    /\ store' = [store EXCEPT !.busy = "install",
                              !.job = [id |-> id, version |-> store.catalog[id]]]
    /\ UNCHANGED <<disk, enabled, host, rows, remote, torn, agent, active>>

(* The checksum is the one of the catalog entry: a package published since  *)
(* then does not match it.                                                   *)
DownloadReply(outcome) ==
    /\ store.busy = "install"
    /\ outcome = "ok" => remote[store.job.id] = store.job.version
    /\ FinishInstall(store, store.job.id, store.job.version, outcome)

DownloadFails == store.busy = "install" /\ InstallFails(store)

(* Removal, with the host unloading the plugin once the files are gone; or  *)
(* some file cannot be deleted and nobody but the list is told.              *)
RemoveAddon(id) ==
    /\ rows[id] = "installed" /\ store.busy = "no"
    /\ disk' = [disk EXCEPT ![id] = NoFiles]
    /\ enabled' = [enabled EXCEPT ![id] = FALSE]
    /\ HostBecomes(ReloadInstalled(UnloadAddon(host, id), disk', enabled'))
    /\ rows' = RebuildAddonsList(store, disk')
    /\ torn' = torn \ {id}
    /\ UNCHANGED <<store, remote>>

FilesLeft(old) == {[old EXCEPT !.manifest = 0], [old EXCEPT !.plugin = 0], old}

RemoveFails(id) ==
    /\ rows[id] = "installed" /\ store.busy = "no"
    /\ \E left \in FilesLeft(disk[id]) : disk' = [disk EXCEPT ![id] = left]
    /\ torn' = torn \cup {id}
    /\ rows' = RebuildAddonsList(store, disk')
    /\ UNCHANGED <<store, enabled, host, remote, agent, active>>

-----------------------------------------------------------------------------
(* The host, the program and the repository.                                 *)

SetAddonEnabled(id) ==
    /\ rows[id] = "installed" /\ host.started
    /\ enabled' = [enabled EXCEPT ![id] = ~@]
    /\ HostBecomes(ReloadInstalled(IF enabled'[id] THEN host ELSE UnloadAddon(host, id),
                                   disk, enabled'))
    /\ rows' = RebuildAddonsList(store, disk)
    /\ UNCHANGED <<store, disk, remote, torn>>

FirstReload ==
    /\ ~host.started
    /\ HostBecomes(ReloadInstalled(host, disk, enabled))
    /\ rows' = RebuildAddonsList(store, disk)
    /\ UNCHANGED <<store, disk, enabled, remote, torn>>

Publish(id) ==
    /\ remote[id] < MaxVersion
    /\ remote' = [remote EXCEPT ![id] = @ + 1]
    /\ UNCHANGED <<store, disk, enabled, host, rows, torn, agent, active>>

FreshStore == [busy |-> "no", catalog |-> NothingListed, hasCatalog |-> FALSE, job |-> NoJob]
FreshHost == [started |-> FALSE, installed |-> NothingListed, loaded |-> NothingListed]

(* The constructor draws the list and asks for the catalog.                 *)
StartsFrom(d) ==
    /\ store' = [FreshStore EXCEPT !.busy = "catalog"]
    /\ host' = FreshHost
    /\ rows' = RebuildAddonsList(FreshStore, d)
    /\ agent' = NoPanel
    /\ UNCHANGED <<enabled, remote, active>>

Restart == StartsFrom(disk) /\ UNCHANGED <<disk, torn>>

CrashInInstall(id) ==
    /\ \/ store.busy = "install" /\ store.job.id = id
       \/ store.busy = "no" /\ rows[id] = "install" /\ id \in Bundled
    /\ LET v == IF store.busy = "install" THEN store.job.version ELSE store.catalog[id]
       IN \E files \in FilesDuring(v) : disk' = [disk EXCEPT ![id] = files]
    /\ StartsFrom(disk')
    /\ torn' = torn \ {id}

CrashInRemove(id) ==
    /\ rows[id] = "installed" /\ store.busy = "no"
    /\ \E left \in FilesLeft(disk[id]) \cup {NoFiles} : disk' = [disk EXCEPT ![id] = left]
    /\ StartsFrom(disk')
    /\ torn' = torn \cup {id}

-----------------------------------------------------------------------------
Init ==
    /\ AgentInit
    /\ store = [FreshStore EXCEPT !.busy = "catalog"]
    /\ disk = [id \in Ids |-> NoFiles]
    /\ enabled = [id \in Ids |-> TRUE]
    /\ host = FreshHost
    /\ rows = RebuildAddonsList(FreshStore, disk)
    /\ remote = [id \in Ids |-> 1]
    /\ torn = {}
    /\ budget \in Budgets

Spend(what) == budget[what] > 0 /\ budget' = [budget EXCEPT ![what] = @ - 1]

UserActs ==
    /\ Spend("user")
    /\ \/ RefreshCatalog
       \/ \E id \in Ids : InstallBundled(id, "ok") \/ InstallRemote(id)
                            \/ RemoveAddon(id) \/ SetAddonEnabled(id)

AgentActs == Spend("agent") /\ AgentUser /\ UNCHANGED addonVars

Fault ==
    /\ Spend("faults")
    /\ \/ \E id \in Ids, outcome \in InstallFaults : InstallBundled(id, outcome)
       \/ \E outcome \in InstallFaults : DownloadReply(outcome)
       \/ \E id \in Ids : RemoveFails(id) \/ CrashInInstall(id) \/ CrashInRemove(id) \/ Publish(id)
       \/ Restart

StoreWorks == (CatalogReply \/ DownloadReply("ok") \/ DownloadFails) /\ UNCHANGED budget
HostStarts == FirstReload /\ UNCHANGED budget
AgentGoesOn == AgentWorks /\ UNCHANGED <<addonVars, budget>>

Next == UserActs \/ AgentActs \/ Fault \/ StoreWorks \/ HostStarts \/ AgentGoesOn

Spec == Init /\ [][Next]_vars

(* Replies end because transfers time out; timers and the deferred first    *)
(* reload run because the event loop does.  Users need not do anything.      *)
AgentEnds == (Answers \/ ObserveTimeout) /\ UNCHANGED <<addonVars, budget>>
FairSpec == Spec /\ WF_vars(StoreWorks) /\ WF_vars(HostStarts) /\ WF_vars(AgentEnds)

-----------------------------------------------------------------------------
(* Once the host has started, exactly the addons that are installed, enabled *)
(* and whole are loaded, whatever was downloaded, removed or toggled in      *)
(* between, and the panel of the agent exists exactly while its addon is     *)
(* loaded.  Directories a fault left in pieces are the exception: a removal  *)
(* that fails leaves the plugin running, and nobody tells the host.          *)
HostMatchesDisk ==
    /\ host.started =>
          \A id \in Ids \ torn : host.loaded[id] # 0 <=> id \in Loadable(disk, enabled)
    /\ agent.exists <=> host.loaded[Agent] # 0

(* The list tells the truth: it offers to remove what is installed and to   *)
(* install what is not, and a button that was disabled because the store was *)
(* busy is enabled again when it no longer is.                               *)
ListIsTrue ==
    \A id \in Ids :
        /\ rows[id] = "installed" <=> id \in Installed(disk)
        /\ rows[id] = "waiting" => store.busy # "no"

(* An addon with a manifest has the plugin of that version, wherever the    *)
(* installation failed or crashed: the manifest is written last.  Excepted   *)
(* are a plugin cut short by a full disk, which goes unnoticed, and a        *)
(* removal that stopped half way.                                            *)
InstalledIsWhole ==
    \A id \in Installed(disk) \ torn : disk[id].plugin = disk[id].manifest

(* The page of addons can be believed, see each part.                        *)
StoreIsTrue == ListIsTrue /\ InstalledIsWhole

(* No reply leaves the store busy for ever, and the loop of the agent comes *)
(* to a pause of its own accord.                                             *)
OperationsEnd == []<>(store.busy = "no") /\ AgentPauses
=============================================================================

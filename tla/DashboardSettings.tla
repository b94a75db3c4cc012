-------------------------- MODULE DashboardSettings --------------------------
(***************************************************************************)
(* What the dashboard's write endpoints do to the files of the program:    *)
(* the lock and the settings of dashboard/state.py, the endpoints that     *)
(* take the lock, and the services that write config.yaml, .env, the       *)
(* universe, the kill switch file, strategy_settings and the instruments   *)
(* cache.                                                                  *)
(*                                                                         *)
(* A handler makes its service from the settings, waits for write_lock     *)
(* (first come, first served) and writes on a worker thread.  config_io    *)
(* renames a temporary file into place; every other writer reads the file, *)
(* empties it and writes it anew.  kite-login writes .env from a process   *)
(* of its own, without the lock, and the dashboard may die between any two *)
(* steps.                                                                  *)
(*                                                                         *)
(* The environment of the process outranks .env.  By hand it names none of *)
(* the variables; deploy/docker-compose.yml gives a container those .env   *)
(* has when the container is made.                                         *)
(*                                                                         *)
(* A file's content is abstracted to the entries the endpoints change; the *)
(* endpoints that ask a language model are only told by the time they hold *)
(* the lock (their effects are in Tuning).                                 *)
(***************************************************************************)
EXTENDS Integers, Sequences

CONSTANTS Clients,
          Requests,       \* the requests a client may send (a subset of Request)
          Paths, DefaultPath,      \* kill_switch_file
          Models, DefaultModel,    \* analyst.model_*
          Keys,           \* API keys of language models
          Symbols, Example, Popular,  \* the bundled universe, POPULAR_SEED_SYMBOLS
          Missing, Empty, \* a file that does not exist; one that was truncated
          Unset,          \* a variable that is not set, a singleton not made yet
          Blank,          \* a variable set to nothing, as in the example .env
          Nobody,         \* no client
          Invalid,        \* a text validate_yaml rejects
          Refused,        \* an edit that has nothing to write
          MaxRequests,    \* bound: requests
          MaxDisturbances \* bound: runs of kite-login and crashes of the dashboard

VARIABLES environ,   \* the environment of the dashboard's process
          disk,      \* the files, and the strategy_settings table
          conn,      \* the toggle whose row the shared connection holds, if any
          killFiles, \* the kill switch files that exist
          cache,     \* the instruments table and its last_refresh, as fetch numbers
          settings,  \* AppState._settings
          singleton, \* the access token the InstrumentsService was made with
          queue,     \* write_lock: its holder, then the handlers that wait
          client,    \* each client's handler
          login,     \* the kite-login process
          issued,    \* access tokens and instrument lists Kite has handed out
          want,      \* the files, had every change been made to what was there
          torn,      \* the files a crash truncated, and no save replaced since
          raced,     \* kite-login and the dashboard wrote .env at once
          crossed,   \* a toggle fetched the row of another statement
          requests, logins, crashes

shared == <<environ, conn, crossed>>
vars == <<disk, killFiles, cache, settings, singleton, queue, client, login, issued,
          want, torn, raced, requests, logins, crashes, shared>>

Defaults == [kill |-> DefaultPath, model |-> DefaultModel]
Config == [kill : Paths, model : Models]
NoVars == [key |-> Unset, token |-> Unset]
EnvVars == [key : Keys \cup {Unset, Blank}, token : Nat \cup {Unset, Blank}]

Request ==
  [kind : {"save"}, config : Config \cup {Invalid}]
    \cup [kind : {"models"}, model : Models]
    \cup [kind : {"keys"}, key : Keys \cup {Unset}]
    \cup [kind : {"kill"}, engage : BOOLEAN]
    \cup [kind : {"add", "remove"}, symbol : Symbols]
    \cup [kind : {"seed", "toggle", "exchange", "refresh", "ask"}]

ASSUME RequestsAssumption == Requests \subseteq Request
ASSUME DefaultsAssumption ==
  DefaultPath \in Paths /\ DefaultModel \in Models
ASSUME UniverseAssumption == Example \subseteq Symbols /\ Popular \subseteq Symbols
ASSUME BoundsAssumption ==
  MaxRequests \in Nat /\ MaxDisturbances \in Nat
ASSUME NullsAssumption ==
  /\ Missing # Empty /\ Blank # Unset
  /\ \A null \in {Missing, Empty, Refused} :
       /\ null \notin Config \cup EnvVars \cup BOOLEAN
       /\ \A universe \in SUBSET Symbols : null # universe

\* from_yaml: anything but a mapping leaves every default ...
Parsed(text) == IF text \in {Missing, Empty} THEN Defaults ELSE text
Vars(text) == IF text \in {Missing, Empty} THEN NoVars ELSE text

\* ... and the secrets are those of the environment before those of .env.
Given(ours, theirs) == IF ours # Unset THEN ours ELSE theirs
Load(files, env) ==
  [config |-> Parsed(files.config),
   env |-> [key |-> Given(env.key, Vars(files.env).key),
            token |-> Given(env.token, Vars(files.env).token)]]

Idle == [at |-> "idle", request |-> [kind |-> "none"], path |-> DefaultPath,
         token |-> 0, text |-> Unset]

\* A new checkout, or one with its three files in place.
Fresh == [config |-> Missing, bak |-> Missing, env |-> Missing, universe |-> Missing,
          enabled |-> TRUE]
Installed == [Fresh EXCEPT !.config = Defaults, !.env = [key |-> Blank, token |-> Blank],
                           !.universe = Example]

Init ==
  /\ disk \in {Fresh, Installed}
  /\ killFiles = {}
  /\ cache = [rows |-> 0, stamp |-> 0]
  /\ environ \in {NoVars, Vars(disk.env)}
  /\ settings = Load(disk, environ)
  /\ singleton = 0
  /\ queue = <<>>
  /\ client = [c \in Clients |-> Idle]
  /\ login = Idle
  /\ issued = 0
  /\ want = disk
  /\ torn = {} /\ raced = FALSE
  /\ conn = Nobody /\ crossed = FALSE
  /\ requests = 0 /\ logins = 0 /\ crashes = 0

-----------------------------------------------------------------------------
(* What a request makes of the file it edits                               *)

FileOf(kind) ==
  CASE kind = "models" -> "config"
    [] kind \in {"keys", "exchange"} -> "env"
    [] kind \in {"add", "remove", "seed"} -> "universe"
    [] kind = "toggle" -> "enabled"
    [] OTHER -> "none"

\* _merge_yaml_block: one block is replaced, the others stay.
MergeModel(text, model) == [Parsed(text) EXCEPT !.model = model]

\* upsert_env_var creates the file; delete_env_var writes only what it changed.
PutKey(text, key) ==
  IF key = Unset /\ Vars(text).key = Unset THEN Refused ELSE [Vars(text) EXCEPT !.key = key]

\* update_env_access_token.
PutToken(text, token) ==
  IF text = Missing THEN Refused ELSE [Vars(text) EXCEPT !.token = token]

\* _current_symbols: the example stands in for a missing file; a file without a
\* list of symbols is an error.
Current(universe) == IF universe = Missing THEN Example ELSE universe

Added(universe, s) ==
  IF (universe = Empty) \/ s \in Current(universe) THEN Refused
  ELSE Current(universe) \cup {s}

Removed(universe, s) ==
  IF universe = Empty \/ s \notin Current(universe) \/ Current(universe) = {s}
    THEN Refused ELSE Current(universe) \ {s}

\* seed_popular: it starts from nothing when the file is missing.
Seeded(universe) ==
  IF universe = Missing THEN Popular
  ELSE IF universe = Empty \/ Popular \subseteq universe THEN Refused
  ELSE universe \cup Popular

Edit(r, token, text) ==
  CASE r.kind = "models" -> MergeModel(text, r.model)
    [] r.kind = "keys" -> PutKey(text, r.key)
    [] r.kind = "exchange" -> PutToken(text, token)
    [] r.kind = "add" -> Added(text, r.symbol)
    [] r.kind = "remove" -> Removed(text, r.symbol)
    [] r.kind = "seed" -> Seeded(text)
    [] r.kind = "toggle" -> ~text

Applied(edit, text) == IF edit = Refused THEN text ELSE edit

-----------------------------------------------------------------------------
(* The handlers                                                            *)

\* Mutant: the lock does not make anybody wait.
TurnAny(c) == TRUE

\* async with write_lock
Turn(c) == queue # <<>> /\ Head(queue) = c

\* The lock goes to the next in line.
Release(c) ==
  /\ client' = [client EXCEPT ![c] = Idle]
  /\ queue' = Tail(queue)

Goto(c, at) ==
  /\ client' = [client EXCEPT ![c].at = at]
  /\ UNCHANGED queue

At(c, kinds, at) ==
  client[c].at = at /\ client[c].request.kind \in kinds /\ Turn(c)

InPlace == {"models", "keys", "add", "remove", "seed"}
Reloads == {"models", "keys", "exchange"}

\* The service is made, from the settings of now, before the lock is taken;
\* state.instruments() makes its service once and for all.
Arrive(c) ==
  /\ client[c].at = "idle" /\ requests < MaxRequests
  /\ \E r \in Requests :
       /\ client' = [client EXCEPT ![c] = [Idle EXCEPT !.at = "waiting", !.request = r,
                                                     !.path = settings.config.kill]]
       /\ singleton' = IF r.kind = "refresh" /\ singleton = 0
                         THEN settings.env.token ELSE singleton
  /\ queue' = Append(queue, c)
  /\ requests' = requests + 1
  /\ UNCHANGED <<disk, killFiles, cache, settings, login, issued, want, torn, raced,
                 logins, crashes, shared>>

\* Mutant: the early return keeps the lock.
SaveInvalidHolds(c) ==
  /\ At(c, {"save"}, "waiting") /\ client[c].request.config = Invalid
  /\ client' = [client EXCEPT ![c] = Idle]
  /\ UNCHANGED <<disk, killFiles, cache, settings, singleton, queue, login, issued, want,
                 torn, raced, requests, logins, crashes, shared>>

\* config_save: nothing is written of a text that does not validate.
SaveInvalid(c) ==
  /\ At(c, {"save"}, "waiting") /\ client[c].request.config = Invalid
  /\ Release(c)
  /\ UNCHANGED <<disk, killFiles, cache, settings, singleton, login, issued, want, torn,
                 raced, requests, logins, crashes, shared>>

\* save_yaml: the file becomes .bak, the temporary file is written ...
SaveBackup(c) ==
  /\ At(c, {"save"}, "waiting") /\ client[c].request.config # Invalid
  /\ disk' = IF disk.config = Missing THEN disk ELSE [disk EXCEPT !.bak = disk.config]
  /\ Goto(c, "replace")
  /\ UNCHANGED <<killFiles, cache, settings, singleton, login, issued, want, torn, raced,
                 requests, logins, crashes, shared>>

\* Mutant: the file is emptied and written anew, like the others.
SaveReplaceInPlace(c) ==
  /\ At(c, {"save"}, "replace")
  /\ disk' = [disk EXCEPT !.config = Empty]
  /\ client' = [client EXCEPT ![c].at = "write", ![c].text = client[c].request.config]
  /\ UNCHANGED <<queue, killFiles, cache, settings, singleton, login, issued, want, torn,
                 raced, requests, logins, crashes, shared>>

\* ... and os.replace puts it in place.
SaveReplace(c) ==
  /\ At(c, {"save"}, "replace")
  /\ disk' = [disk EXCEPT !.config = client[c].request.config]
  /\ want' = [want EXCEPT !.config = client[c].request.config]
  /\ torn' = torn \ {"config"}
  /\ Goto(c, "reload")
  /\ UNCHANGED <<killFiles, cache, settings, singleton, login, issued, raced, requests,
                 logins, crashes, shared>>

\* reload_settings.
Reload(c) ==
  /\ At(c, Reloads \cup {"save"}, "reload")
  /\ settings' = Load(disk, environ)
  /\ Release(c)
  /\ UNCHANGED <<disk, killFiles, cache, singleton, login, issued, want, torn, raced,
                 requests, logins, crashes, shared>>

\* Kite exchanges the request token for an access token, or raises.
Exchange(c) ==
  /\ At(c, {"exchange"}, "waiting")
  /\ \/ Release(c) /\ UNCHANGED issued
     \/ /\ issued' = issued + 1
        /\ client' = [client EXCEPT ![c].at = "read", ![c].token = issued + 1]
        /\ UNCHANGED queue
  /\ UNCHANGED <<disk, killFiles, cache, settings, singleton, login, want, torn, raced,
                 requests, logins, crashes, shared>>

\* The service reads the file and makes the new text, or has nothing to write.
ReadFile(c) ==
  /\ \/ At(c, InPlace, "waiting")
     \/ At(c, {"exchange"}, "read")
  /\ LET r == client[c].request
         f == FileOf(r.kind)
         new == Edit(r, client[c].token, disk[f])
     IN  \/ /\ new = Refused
            /\ IF r.kind = "keys" THEN Goto(c, "reload") ELSE Release(c)
            /\ UNCHANGED raced
         \/ /\ new # Refused
            /\ client' = [client EXCEPT ![c].at = "truncate", ![c].text = new]
            /\ raced' = (raced \/ (f = "env" /\ login.at # "idle"))
            /\ UNCHANGED queue
  /\ UNCHANGED <<disk, killFiles, cache, settings, singleton, login, issued, want, torn,
                 requests, logins, crashes, shared>>

\* StrategyStateService.toggle: get executes its SELECT over the connection the
\* whole dashboard shares ...
ToggleExecute(c) ==
  /\ At(c, {"toggle"}, "waiting")
  /\ conn' = c
  /\ Goto(c, "fetch")
  /\ UNCHANGED <<disk, killFiles, cache, settings, singleton, login, issued, want, torn,
                 raced, requests, logins, crashes, environ, crossed>>

\* ... which a page or a sweep uses from its thread, without the lock ...
OtherStatement ==
  /\ conn # Nobody
  /\ conn' = Nobody
  /\ UNCHANGED <<disk, killFiles, cache, settings, singleton, queue, client, login, issued,
                 want, torn, raced, requests, logins, crashes, environ, crossed>>

\* ... and fetches: its own row, or whatever another statement has left there.
ToggleFetch(c) ==
  /\ At(c, {"toggle"}, "fetch")
  /\ \E enabled \in IF conn = c THEN {disk.enabled} ELSE BOOLEAN :
       client' = [client EXCEPT ![c].at = "write",
                                ![c].text = Edit(client[c].request, client[c].token, enabled)]
  /\ conn' = Nobody
  /\ crossed' = (crossed \/ conn # c)
  /\ UNCHANGED <<disk, killFiles, cache, settings, singleton, queue, login, issued, want,
                 torn, raced, requests, logins, crashes, environ>>

\* write_text opens the file for writing ...
Truncate(c) ==
  /\ At(c, InPlace \cup {"exchange"}, "truncate")
  /\ disk' = [disk EXCEPT ![FileOf(client[c].request.kind)] = Empty]
  /\ Goto(c, "write")
  /\ UNCHANGED <<killFiles, cache, settings, singleton, login, issued, want, torn, raced,
                 requests, logins, crashes, shared>>

\* Mutant: the handlers that write .env leave the settings as they are.
AfterWriteForget(c) == IF client[c].request.kind = "models" THEN Goto(c, "reload") ELSE Release(c)

AfterWrite(c) == IF client[c].request.kind \in Reloads THEN Goto(c, "reload") ELSE Release(c)

\* ... and writes it (an upsert for strategy_settings).
WriteFile(c) ==
  /\ At(c, InPlace \cup {"exchange", "toggle"}, "write")
  /\ LET f == FileOf(client[c].request.kind)
     IN  /\ disk' = [disk EXCEPT ![f] = client[c].text]
         /\ want' = [want EXCEPT ![f] = Applied(Edit(client[c].request, client[c].token, @), @)]
  /\ AfterWrite(c)
  /\ UNCHANGED <<killFiles, cache, settings, singleton, login, issued, torn, raced,
                 requests, logins, crashes, shared>>

\* KillSwitchService.set: touch or unlink, at the path of the time of arrival.
KillSet(c) ==
  /\ At(c, {"kill"}, "waiting")
  /\ killFiles' = IF client[c].request.engage THEN killFiles \cup {client[c].path}
                  ELSE killFiles \ {client[c].path}
  /\ Release(c)
  /\ UNCHANGED <<disk, cache, settings, singleton, login, issued, want, torn, raced,
                 requests, logins, crashes, shared>>

\* Instruments refresh: NSE and Kite answer, or the handler answers 400.
Fetch(c) ==
  /\ At(c, {"refresh"}, "waiting")
  /\ \/ Release(c) /\ UNCHANGED issued
     \/ /\ issued' = issued + 1
        /\ client' = [client EXCEPT ![c].at = "delete", ![c].token = issued + 1]
        /\ UNCHANGED queue
  /\ UNCHANGED <<disk, killFiles, cache, settings, singleton, login, want, torn, raced,
                 requests, logins, crashes, shared>>

\* Mutant: the time of the refresh is noted before the table is replaced.
DeleteRowsStamped(c) ==
  /\ At(c, {"refresh"}, "delete")
  /\ cache' = [cache EXCEPT !.stamp = client[c].token]
  /\ Goto(c, "insert")
  /\ UNCHANGED <<disk, killFiles, settings, singleton, login, issued, want, torn, raced,
                 requests, logins, crashes, shared>>

DeleteRows(c) ==
  /\ At(c, {"refresh"}, "delete")
  /\ cache' = [cache EXCEPT !.rows = 0]
  /\ Goto(c, "insert")
  /\ UNCHANGED <<disk, killFiles, settings, singleton, login, issued, want, torn, raced,
                 requests, logins, crashes, shared>>

\* executemany: a token listed twice breaks the primary key, and the handler.
InsertRows(c) ==
  /\ At(c, {"refresh"}, "insert")
  /\ \/ Release(c) /\ UNCHANGED cache
     \/ cache' = [cache EXCEPT !.rows = client[c].token] /\ Goto(c, "stamp")
  /\ UNCHANGED <<disk, killFiles, settings, singleton, login, issued, want, torn, raced,
                 requests, logins, crashes, shared>>

\* _write_meta
Stamp(c) ==
  /\ At(c, {"refresh"}, "stamp")
  /\ cache' = [cache EXCEPT !.stamp = client[c].token]
  /\ Release(c)
  /\ UNCHANGED <<disk, killFiles, settings, singleton, login, issued, want, torn, raced,
                 requests, logins, crashes, shared>>

\* A tuner or the screener has its answer, or its wait_for times out.
Answered(c) ==
  /\ At(c, {"ask"}, "waiting")
  /\ Release(c)
  /\ UNCHANGED <<disk, killFiles, cache, settings, singleton, login, issued, want, torn,
                 raced, requests, logins, crashes, shared>>

Handle(c) ==
  \/ SaveInvalid(c) \/ SaveBackup(c) \/ SaveReplace(c) \/ Reload(c)
  \/ Exchange(c) \/ ReadFile(c) \/ Truncate(c) \/ WriteFile(c)
  \/ ToggleExecute(c) \/ ToggleFetch(c)
  \/ KillSet(c) \/ Answered(c)
  \/ Fetch(c) \/ DeleteRows(c) \/ InsertRows(c) \/ Stamp(c)

-----------------------------------------------------------------------------
(* kite-login and crashes                                                  *)

WritesEnv(c) ==
  client[c].at \in {"truncate", "write"} /\ FileOf(client[c].request.kind) = "env"

\* python -m orchestrator kite-login: it has its token, and reads .env ...
LoginReads ==
  /\ login.at = "idle" /\ logins + crashes < MaxDisturbances
  /\ disk.env # Missing
  /\ login' = [login EXCEPT !.at = "truncate", !.token = issued + 1,
                            !.text = PutToken(disk.env, issued + 1)]
  /\ issued' = issued + 1
  /\ logins' = logins + 1
  /\ raced' = (raced \/ \E c \in Clients : WritesEnv(c))
  /\ UNCHANGED <<disk, killFiles, cache, settings, singleton, queue, client, want, torn,
                 requests, crashes, shared>>

\* ... empties it ...
LoginTruncates ==
  /\ login.at = "truncate"
  /\ disk' = [disk EXCEPT !.env = Empty]
  /\ login' = [login EXCEPT !.at = "write"]
  /\ UNCHANGED <<killFiles, cache, settings, singleton, queue, client, issued, want, torn,
                 raced, requests, logins, crashes, shared>>

\* ... and writes it.
LoginWrites ==
  /\ login.at = "write"
  /\ disk' = [disk EXCEPT !.env = login.text]
  /\ want' = [want EXCEPT !.env = Applied(PutToken(@, login.token), @)]
  /\ login' = Idle
  /\ UNCHANGED <<killFiles, cache, settings, singleton, queue, client, issued, torn, raced,
                 requests, logins, crashes, shared>>

\* The file a crash finds truncated, if any.
TruncatedBy(c) ==
  IF client[c].at = "write" THEN {FileOf(client[c].request.kind)} \ {"enabled"} ELSE {}

\* The dashboard dies and is started again: AppState.build reads the files.  The
\* environment is the one it had, or that of a container made anew.
Crash ==
  /\ logins + crashes < MaxDisturbances
  /\ crashes' = crashes + 1
  /\ client' = [c \in Clients |-> Idle]
  /\ queue' = <<>>
  /\ environ' \in {environ, Vars(disk.env)}
  /\ settings' = Load(disk, environ')
  /\ singleton' = 0
  /\ torn' = torn \cup UNION {TruncatedBy(c) : c \in Clients}
  /\ conn' = Nobody
  /\ UNCHANGED <<disk, killFiles, cache, login, issued, want, raced, crossed, requests, logins>>

Next ==
  \/ \E c \in Clients : Arrive(c) \/ Handle(c)
  \/ OtherStatement
  \/ LoginReads \/ LoginTruncates \/ LoginWrites
  \/ Crash

Spec == Init /\ [][Next]_vars

\* Worker threads run, and every outside call has a timeout.
Fairness ==
  /\ \A c \in Clients : WF_vars(Handle(c))
  /\ WF_vars(LoginTruncates \/ LoginWrites)

FairSpec == Spec /\ Fairness

-----------------------------------------------------------------------------
(* Properties                                                              *)

\* reload_settings follows every write of config.yaml and .env: while no handler
\* is at work, the settings in memory are what a start in this environment would
\* read from the files.  A secret the environment names, as it does in a container,
\* is that of the environment, whatever has been written to .env since; and
\* kite-login writes .env behind the dashboard's back.
SettingsTellFiles ==
  queue = <<>> =>
    /\ settings.config = Load(disk, environ).config
    /\ logins = 0 => settings.env = Load(disk, environ).env

\* write_lock and the read-merge-write of each service: no change an endpoint
\* made is lost to another, whatever the order of the handlers - unless a crash
\* truncated the file, kite-login wrote .env at the same time, or a toggle was
\* given the row of a statement that does not take the lock.
UpdatesKept ==
  \A f \in {"config", "universe", "enabled", "env"} \ torn :
    \/ disk[f] \in {want[f], Empty}
    \/ f = "env" /\ raced
    \/ f = "enabled" /\ crossed

\* save_yaml promises that "a half-written file is never observable to other
\* readers": an empty config.yaml is the work of the model settings.
WholeConfigs ==
  disk.config = Empty =>
    \/ "config" \in torn
    \/ \E c \in Clients : client[c].at = "write" /\ client[c].request.kind = "models"

\* InstrumentsService.refresh: the rows are never older than the refresh the
\* page names as the last one.
StampTellsRows == cache.rows # 0 => cache.rows >= cache.stamp

\* A kill switch request waits for the handlers in front of it, some of which
\* wait for a language model or for Kite: it gets its turn (or dies with the
\* dashboard).
KillServed ==
  \A c \in Clients : client[c].request.kind = "kill" ~> client[c].request.kind # "kill"
=============================================================================

--------------------------------- MODULE Panel ---------------------------------
(***************************************************************************)
(* The web panel and the configuration file (web/server.rs,                *)
(* config/loader.rs).  A request needs a session signed with the panel's   *)
(* password.  A request that touches config.toml runs as a blocking task   *)
(* of its own: it loads the file, which also writes it back, changes the   *)
(* configuration and saves it.  Nothing orders the tasks, and a save first *)
(* truncates the file and then fills it, so a task may read the file of    *)
(* another one's save.  The central backend has commands of the same kind  *)
(* (backend/mod.rs).                                                       *)
(*                                                                         *)
(* A configuration is a record of the switches, the owner, the password    *)
(* and the COFL sessions; whatever else it holds behaves like an owner.    *)
(***************************************************************************)
EXTENDS Naturals

CONSTANTS
    Switch,         \* the flip switches: enable_ah_flips, enable_bazaar_flips
    Password,       \* the passwords somebody chooses
    MaxRequests,    \* bound: requests that touch the file
    MaxRestarts     \* bound: times the process is started again

Request == 1..MaxRequests

Field == Switch \cup {"owner", "password"}
Sessions == {"signedIn", "none", "fresh"}
Blank == "blank"            \* an empty password
Generated == "generated"    \* the one generate_web_password() invents
Empty == [is |-> "empty"]   \* a file that is truncated
Garbled == [is |-> "mixed"] \* a file that two saves wrote into
Idle == [step |-> "idle"]

Value(f) == IF f = "password" THEN Password \cup {Generated}
            ELSE BOOLEAN
Choices == [Switch -> BOOLEAN]
Config == [on : Choices, owner : BOOLEAN, password : Password \cup {Generated},
           sessions : Sessions]

VARIABLES
    file,           \* config.toml
    flags,          \* the switches in memory
    secret,         \* web_gui_password in memory
    token,          \* the password the browser's session is signed with
    task,           \* the tasks of the requests
    sent,           \* where the last request went
    restarts,
    asked,          \* (auxiliary) the values of each field that were there
                    \* or that somebody asked for
    torn,           \* (auxiliary) a save was read, or written, half-way
    loose           \* (auxiliary) two tasks have run at once, or the backend
                    \* has switched something

vars == <<file, flags, secret, token, task, sent, restarts, asked, torn,
          loose>>

History == <<asked, torn, loose>>
Memory == <<flags, secret, token>>

Running(r) == task[r].step \notin {"idle", "done"}

Writing(r) == task[r].step \in {"rewriting", "writing"}

TypeOK ==
    /\ file \in Config \cup {Empty, Garbled}
    /\ flags \in Choices
    /\ secret \in Password \cup {Generated}
    /\ token \in Password \cup {Generated, Blank}
    /\ \A r \in Request :
          task[r].step \in {"idle", "stored", "loading", "loaded", "rewriting", "held",
                            "saving", "writing", "done"}
    /\ sent \in {"nowhere", "file", "socket", "queue"}
    /\ restarts \in 0..MaxRestarts
    /\ \A f \in Field : asked[f] \subseteq Value(f)
    /\ {torn, loose} \subseteq BOOLEAN

(* Config::default(), with the password ensure_web_gui_password() adds. *)
Defaults ==
    [on |-> [s \in Switch |-> TRUE], owner |-> FALSE, password |-> Generated,
     sessions |-> "none"]

Of(c, f) == IF f \in Switch THEN c.on[f]
            ELSE IF f = "owner" THEN c.owner ELSE c.password

Set(c, f, v) == IF f \in Switch THEN [c EXCEPT !.on[f] = v]
                ELSE IF f = "owner" THEN [c EXCEPT !.owner = v]
                ELSE [c EXCEPT !.password = v]

Init ==
    /\ \E p \in Password :
          file = [Defaults EXCEPT !.password = p, !.sessions = "signedIn"]
    /\ flags = file.on
    /\ secret = file.password
    /\ token = Blank
    /\ task = [r \in Request |-> Idle]
    /\ sent = "nowhere"
    /\ restarts = 0
    /\ asked = [f \in Field |-> {Of(file, f)}]
    /\ torn = FALSE
    /\ loose = FALSE

-----------------------------------------------------------------------------
(* The session cookie is the time it ends, signed with the password.       *)
Signed(password) == password

SessionIsValid(cookie) == cookie = Signed(secret)

(* check_auth(): nothing is asked of anyone when there is no password.     *)
Authorized == secret = Blank \/ SessionIsValid(token)

(* login() with the right password; any other is turned away. *)
Login ==
    /\ token' = Signed(secret)
    /\ UNCHANGED <<file, flags, secret, task, sent, restarts, History>>

Ask(f, v) == asked' = [asked EXCEPT ![f] = @ \cup {v}]

Step(r, s) == task' = [task EXCEPT ![r].step = s]

Begin(r, step, job) ==
    /\ task[r] = Idle
    /\ \A o \in 1..(r - 1) : task[o] # Idle
    /\ task' = [task EXCEPT ![r] = [step |-> step, job |-> job]]
    /\ loose' = (loose \/ \E o \in Request : Running(o))
    /\ sent' = "file"
    /\ UNCHANGED <<file, secret, token, restarts, torn>>

Spawn(r, job) == Begin(r, "loading", job)

(* toggle_ah(), toggle_bazaar(): the thread of the request puts the switch *)
(* in memory ...                                                           *)
Toggle(r, s, v) ==
    /\ Authorized
    /\ flags' = [flags EXCEPT ![s] = v]
    /\ Ask(s, v)
    /\ Begin(r, "stored", [kind |-> "toggle", field |-> s, value |-> v])

(* ... and then spawns the task of update_property().                      *)
Persist(r) ==
    /\ task[r].step = "stored"
    /\ Step(r, "loading")
    /\ UNCHANGED <<file, Memory, sent, restarts, History>>

(* get_config() and get_config_json() load(), and no more. *)
Get(r) ==
    /\ Authorized
    /\ Spawn(r, [kind |-> "get"])
    /\ UNCHANGED <<flags, asked>>

(* save_config(): the whole file as TOML, without the sessions.  One with  *)
(* no password is refused before anything is read.  The text is that of a  *)
(* page opened before there was an owner.                                  *)
SaveToml(r, c) ==
    /\ Authorized
    /\ asked' = [f \in Field |-> asked[f] \cup {Of(c, f)}]
    /\ Spawn(r, [kind |-> "toml", config |-> [c EXCEPT !.sessions = "none"]])
    /\ UNCHANGED flags

(* save_config_json(): a patch of one field.  A blank password is only     *)
(* refused once the file has been loaded.                                  *)
SaveJson(r, f, v) ==
    /\ Authorized
    /\ IF f = "password" /\ v = Blank THEN UNCHANGED asked ELSE Ask(f, v)
    /\ Spawn(r, [kind |-> "json", field |-> f, value |-> v])
    /\ UNCHANGED flags

(* The backend needs no session: its set_discord_id, ... *)
Link(r) ==
    /\ Ask("owner", TRUE)
    /\ Spawn(r, [kind |-> "link", field |-> "owner", value |-> TRUE])
    /\ UNCHANGED flags

(* ... and its toggles, which turn a switch over in memory alone. *)
BackendToggle(s) ==
    /\ flags' = [flags EXCEPT ![s] = ~@]
    /\ loose' = TRUE
    /\ UNCHANGED <<file, secret, token, task, sent, restarts, asked, torn>>

-----------------------------------------------------------------------------
End(r) == task' = [task EXCEPT ![r] = [step |-> "done"]]

Take(r, s, c) == task' = [task EXCEPT ![r] = [step |-> s, job |-> @.job,
                                             config |-> c]]

(* ConfigLoader::load() reads the file: a truncated one has every default, *)
(* one that cannot be parsed ends the task, but for the save of a TOML     *)
(* text, which goes on without the sessions.                               *)
Load(r) ==
    /\ task[r].step = "loading"
    /\ \/ file \in Config /\ Take(r, "loaded", file)
       \/ file = Empty /\ Take(r, "loaded", Defaults)
       \/ file = Garbled /\ task[r].job.kind = "toml"
          /\ Take(r, "held", Defaults)
       \/ file = Garbled /\ task[r].job.kind # "toml" /\ End(r)
    /\ torn' = (torn \/ file \notin Config)
    /\ UNCHANGED <<file, Memory, sent, restarts, asked, loose>>

(* ConfigLoader::save(): fs::write() truncates the file ... *)
Truncate(r, before, after) ==
    /\ task[r].step = before
    /\ file' = Empty
    /\ Step(r, after)
    /\ UNCHANGED <<Memory, sent, restarts, History>>

(* ... and fills it.  What another save has put there in between may stick *)
(* out behind the shorter text.                                            *)
Fill(r) ==
    IF file = Empty THEN file' = task[r].config /\ UNCHANGED torn
    ELSE file' \in {task[r].config, Garbled} /\ torn' = TRUE

(* The save at the end of load(). *)
Rewrite(r) ==
    /\ task[r].step = "rewriting"
    /\ Fill(r)
    /\ IF task[r].job.kind = "get" THEN End(r) ELSE Step(r, "held")
    /\ UNCHANGED <<Memory, sent, restarts, asked, loose>>

(* update_property() and set_discord_id: one field of what was loaded. *)
Change(r) ==
    /\ task[r].step = "held"
    /\ task[r].job.kind \in {"toggle", "link"}
    /\ Take(r, "saving", Set(task[r].config, task[r].job.field,
                            task[r].job.value))
    /\ UNCHANGED <<file, Memory, sent, restarts, History>>

\* A mutant: save_config() writes what the browser sent.
Restored_Sent(c, loaded) == c

(* save_config(): the sessions are those of the file. *)
Restored(c, loaded) == [c EXCEPT !.sessions = loaded.sessions]

ChangeToml(r) ==
    LET config == Restored(task[r].job.config, task[r].config)
    IN  /\ task[r].step = "held"
        /\ task[r].job.kind = "toml"
        /\ flags' = config.on
        /\ Take(r, "saving", config)
        /\ UNCHANGED <<file, secret, token, sent, restarts, History>>

(* save_config_json(): merge_config_patch(), then the check of the         *)
(* password.                                                               *)
ChangeJson(r) ==
    LET config == Set(task[r].config, task[r].job.field, task[r].job.value)
    IN  /\ task[r].step = "held"
        /\ task[r].job.kind = "json"
        /\ IF config.password = Blank
           THEN End(r) /\ UNCHANGED flags
           ELSE flags' = config.on /\ Take(r, "saving", config)
        /\ UNCHANGED <<file, secret, token, sent, restarts, History>>

SetPanelPassword(new) == secret' = new

(* The save at the end; that of a patch then sets the password in memory.  *)
Save(r) ==
    /\ task[r].step = "writing"
    /\ Fill(r)
    /\ End(r)
    /\ IF task[r].job.kind = "json" THEN SetPanelPassword(task[r].config.password)
       ELSE UNCHANGED secret
    /\ UNCHANGED <<flags, token, sent, restarts, asked, loose>>

-----------------------------------------------------------------------------
(* A line or an order goes to COFL or to the command queue.  Bound: not    *)
(* while a task runs; neither touches what the other does.                 *)
Send(to) ==
    /\ \A r \in Request : ~Running(r)
    /\ sent' = to
    /\ UNCHANGED <<file, Memory, task, restarts, History>>

Line == {"shell command", "/ping", "/cofl", "/cofl x", "/x", "text"}

LooksLikeShellCommand(line) == line = "shell command"

(* process_chat_input(): what looks like a shell command stays in the      *)
(* panel, as does /ping; a /cofl with something behind it and plain text   *)
(* go to COFL, any other command to the queue.                             *)
ProcessChatInput(line) ==
    IF LooksLikeShellCommand(line) \/ line = "/ping" \/ line = "/cofl"
    THEN UNCHANGED vars
    ELSE Send(IF line = "/x" THEN "queue" ELSE "socket")

SendChat(line) == Authorized /\ ProcessChatInput(line)

CancelAuction == Authorized /\ Send("queue")

ListItem(bid) == Authorized /\ bid > 0 /\ Send("queue")

ClaimPurchases == Authorized /\ Send("queue")

CollectBzOrders == Authorized /\ Send("queue")

ClaimBzOrders == Authorized /\ Send("queue")

(* list_item, cancel_auction, claim_purchases, collect_bz_orders. *)
BackendOrder == Send("queue")

(* The process starts again with what the file holds, and signs in if it   *)
(* holds no session (main.rs).  With a garbled file it does not start.     *)
Restart ==
    LET loaded == IF file = Empty THEN Defaults ELSE file
        config == IF loaded.sessions = "none"
                  THEN [loaded EXCEPT !.sessions = "fresh"] ELSE loaded
    IN  /\ restarts < MaxRestarts
        /\ restarts' = restarts + 1
        /\ file # Garbled
        /\ file' = config
        /\ flags' = config.on
        /\ secret' = config.password
        /\ task' = [r \in Request |-> IF Running(r) THEN [step |-> "done"]
                                      ELSE task[r]]
        /\ sent' = "nowhere"
        /\ torn' = (torn \/ file = Empty)
        /\ UNCHANGED <<token, asked, loose>>

(* After half a second, or the 3 s of the transfer of a licence. *)
SwitchAccount == Authorized /\ Restart

(* process::exit(), after a load; somebody starts the bot again. *)
KillSession == Authorized /\ Restart

(* shutdown of the backend, or a crash. *)
Shutdown == Restart

Next ==
    \/ Login
    \/ \E r \in Request :
          \/ \E s \in Switch, v \in BOOLEAN : Toggle(r, s, v)
          \/ Get(r)
          \/ \E on \in Choices, p \in Password :
                SaveToml(r, [Defaults EXCEPT !.on = on, !.password = p])
          \/ \E s \in Switch, v \in BOOLEAN : SaveJson(r, s, v)
          \/ \E p \in Password \cup {Blank} : SaveJson(r, "password", p)
          \/ Link(r)
          \/ Persist(r)
          \/ Load(r)
          \/ Truncate(r, "loaded", "rewriting")
          \/ Truncate(r, "saving", "writing")
          \/ Rewrite(r)
          \/ Change(r)
          \/ ChangeToml(r)
          \/ ChangeJson(r)
          \/ Save(r)
    \/ \E line \in Line : SendChat(line)
    \/ CancelAuction \/ \E bid \in 0..1 : ListItem(bid)
    \/ ClaimPurchases \/ CollectBzOrders \/ ClaimBzOrders
    \/ SwitchAccount \/ KillSession \/ Shutdown
    \/ \E s \in Switch : BackendToggle(s)
    \/ BackendOrder

Spec == Init /\ [][Next]_vars

-----------------------------------------------------------------------------
\* However the tasks overlap and wherever the process stops, as long as no
\* save was met half-way the file keeps the sessions, and every setting in it
\* and in memory is one that was there or that somebody asked for
\* (server.rs:1949-1954, 2062-2065, loader.rs:190-199).
NothingInvented ==
    \/ torn
    \/ /\ file # Garbled
       /\ \/ file = Empty /\ \E r \in Request : Writing(r)
          \/ /\ file.sessions = "signedIn"
             /\ \A f \in Field : Of(file, f) \in asked[f]
       /\ secret \in asked["password"]

\* When the tasks have run one after the other and are done, and the backend has
\* left them alone, the switches in memory are those of the file (server.rs:1030-1047, 1956-1957, 2067-2068).
FileFollowsMemory ==
    (~torn /\ ~loose /\ \A r \in Request : ~Running(r)) => file.on = flags

\* Whatever a save meets, the panel never goes without a password.
StaysLocked == /\ secret # Blank
               /\ file \in Config => file.password # Blank

KeepsTheConfig == NothingInvented /\ FileFollowsMemory /\ StaysLocked
=============================================================================

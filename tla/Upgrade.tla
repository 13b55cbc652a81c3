------------------------------- MODULE Upgrade -------------------------------
(***************************************************************************)
(* How the program replaces itself: the loader, which updates before it    *)
(* launches the bot (src/src/loader.rs), and the panel's update, which the *)
(* bot does to itself (src/src/updater.rs, update_session in               *)
(* src/src/web/server.rs, restart_process in src/src/utils/process.rs).    *)
(*                                                                         *)
(* The file system keeps what was written when the machine or a process    *)
(* dies between two calls, and a rename is atomic.  A download is complete *)
(* or it is an error.  One update is under way at a time: the loader only  *)
(* waits while the bot runs, and the panel's button is pressed once (see   *)
(* README).  Releases are numbered; 0 is no release.                       *)
(***************************************************************************)
EXTENDS Naturals

CONSTANT MaxTag         \* bound of the model: the latest release there will be

VARIABLES
    os,
    latest,             \* on GitHub
    binary, sidecar,    \* frikadellen_baf and frikadellen_baf_new: of which
                        \* release, and all of it?
    version,            \* .version
    proc,               \* who runs: nobody, the loader, the bot
    step, tag,          \* the update under way, and to what
    script              \* _baf_update.bat runs

files == <<binary, sidecar, version>>
vars  == <<os, latest, files, proc, step, tag, script>>

Tags == 0..MaxTag
File == [tag : Tags, whole : BOOLEAN]
Steps == {"none", "download", "write", "written", "swapped", "staged", "restart"}

TypeOK ==
    /\ os \in {"linux", "macos", "windows"} /\ latest \in Tags \ {0}
    /\ binary \in File /\ sidecar \in File /\ version \in Tags
    /\ proc \in {"nobody", "loader", "bot"} /\ step \in Steps /\ tag \in Tags
    /\ script \in BOOLEAN

Absent == [tag |-> 0, whole |-> TRUE]
Whole(t) == [tag |-> t, whole |-> TRUE]
Part(t) == [tag |-> t, whole |-> FALSE]

\* A bot that somebody has put there, with or without its .version, or none.
Init ==
    /\ os \in {"linux", "macos", "windows"} /\ latest = 1
    /\ binary \in {Absent, Whole(1)} /\ version \in 0..binary.tag
    /\ sidecar = Absent
    /\ proc = "nobody" /\ step = "none" /\ tag = 0 /\ script = FALSE

-----------------------------------------------------------------------------
(* The world. *)

Release ==
    /\ latest < MaxTag /\ latest' = latest + 1
    /\ UNCHANGED <<os, files, proc, step, tag, script>>

Run ==
    /\ proc = "nobody" /\ ~script
    /\ proc' \in {"loader"} \cup (IF binary.tag > 0 THEN {"bot"} ELSE {})
    /\ UNCHANGED <<os, latest, files, step, tag, script>>

\* The process ends or the machine does; the loader ends with the bot.
Dies ==
    /\ proc # "nobody" \/ script
    /\ proc' = "nobody" /\ step' = "none" /\ tag' = 0 /\ script' = FALSE
    /\ UNCHANGED <<os, latest, files>>

-----------------------------------------------------------------------------
(* The update: check_and_update and download_latest. *)

Unix == os # "windows"

\* The loader then launches the bot there is, if there is one.
Afterwards ==
    /\ step' = "none" /\ tag' = 0
    /\ proc' = IF proc = "bot" THEN "bot" ELSE IF binary'.tag > 0 THEN "bot" ELSE "nobody"

UpToDate == version = latest

\* The loader asks whenever it is started, the bot when it is told to.
Query ==
    /\ proc # "nobody" /\ step = "none"
    /\ UNCHANGED <<os, latest, files, script>>
    /\ IF UpToDate THEN Afterwards
       ELSE step' = "download" /\ tag' = latest /\ UNCHANGED proc

\* Any call fails.
Fails ==
    /\ step \in {"download", "write", "written"}
    /\ UNCHANGED files /\ Afterwards
    /\ UNCHANGED <<os, latest, script>>

\* A plausible bug: what is downloaded is written where it belongs.
Write_InPlace(f) == binary' = f /\ UNCHANGED sidecar
Write(f) == sidecar' = f /\ UNCHANGED binary

WriteBegins ==
    /\ step = "download" /\ step' = "write"
    /\ Write(Part(tag))
    /\ UNCHANGED <<os, latest, version, proc, tag, script>>

WriteEnds ==
    /\ step = "write" /\ step' = "written"
    /\ Write(Whole(tag))
    /\ UNCHANGED <<os, latest, version, proc, tag, script>>

\* On Unix: the sidecar is made executable and takes the binary's name.
Swap ==
    /\ Unix /\ step = "written" /\ step' = "swapped"
    /\ binary' = sidecar /\ sidecar' = Absent
    /\ UNCHANGED <<os, latest, version, proc, tag, script>>

\* On Windows the binary is still what it was.  An error is ignored, and what
\* is then in the file is no release's tag.
WriteVersion ==
    /\ step = IF Unix THEN "swapped" ELSE "written"
    /\ version' \in {tag, 0}
    /\ UNCHANGED <<os, latest, binary, sidecar, script>>
    /\ IF Unix /\ proc = "loader" THEN Afterwards
       ELSE step' = "restart" /\ UNCHANGED <<proc, tag>>

-----------------------------------------------------------------------------
(* The restart: finish_update_restart, and the loader's last lines. *)

\* current_exe names the file the process was started from; on Linux that of a
\* file that has been replaced has " (deleted)" at its end, and exec fails.
Restart ==
    /\ Unix /\ step = "restart" /\ step' = "none" /\ tag' = 0
    /\ proc' = IF os = "linux" THEN "nobody" ELSE "bot"
    /\ UNCHANGED <<os, latest, files, script>>

\* The script is spawned and the process exits.  When it cannot be, the loader
\* goes on and the bot exits all the same.
Leave ==
    /\ ~Unix /\ step = "restart"
    /\ UNCHANGED <<os, latest, files>>
    /\ \/ script' = TRUE /\ step' = "none" /\ tag' = 0 /\ proc' = "nobody"
       \/ script' = FALSE /\ proc = "loader" /\ Afterwards
       \/ script' = FALSE /\ proc = "bot" /\ step' = "none" /\ tag' = 0
          /\ proc' = "nobody"

\* The script: what it moves it may find locked, and says nothing of it.
Script ==
    /\ script /\ script' = FALSE
    /\ \/ sidecar.tag > 0 /\ binary' = sidecar /\ sidecar' = Absent
       \/ UNCHANGED <<binary, sidecar>>
    /\ proc' = IF binary'.tag > 0 THEN "bot" ELSE "nobody"
    /\ UNCHANGED <<os, latest, version, step, tag>>

Next ==
    \/ Release \/ Run \/ Dies
    \/ Query \/ Fails \/ WriteBegins \/ WriteEnds \/ Swap \/ WriteVersion
    \/ Restart \/ Leave \/ Script

Spec == Init /\ [][Next]_vars

-----------------------------------------------------------------------------
(* Wherever the update or the machine stops, the bot that is launched next  *)
(* is a whole one; and on Unix it is not older than .version says, so that  *)
(* no update is skipped for good (loader.rs:113-116, 189-204,               *)
(* updater.rs:114-118, 140-162).                                            *)
NeverHalfUpdated ==
    /\ binary.whole
    /\ Unix => version <= binary.tag
=============================================================================

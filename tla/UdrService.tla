------------------------------ MODULE UdrService ------------------------------
(***************************************************************************)
(* Life of the UDR process and its registration at the NRF               *)
(* (src/free5gc/NFs/udr/cmd/main.go, pkg/service/init.go,                 *)
(* internal/logger/logger.go).                                             *)
(*                                                                         *)
(* main runs action: initLogFile, Initialize (config, log level, version, *)
(* Validate), then Start: connect MongoDB, register the NF profile at the *)
(* NRF, install the SIGTERM goroutine, create the HTTP server and listen. *)
(* The only deregistration is in Terminate, which the SIGTERM goroutine  *)
(* runs before os.Exit(0).  Every other end of the process (an error      *)
(* returned to main, a Fatalf, a SIGTERM before signal.Notify, which      *)
(* takes the default action) leaves whatever the NRF holds.               *)
(*                                                                         *)
(* The NRF is abstracted to whether it holds the UDR's profile; the       *)
(* NRF, MongoDB and the file system are the environment, whose answers    *)
(* are chosen nondeterministically.                                        *)
(***************************************************************************)
EXTENDS Naturals

CONSTANTS
  Files,          \* the possible configuration files
  Unreadable,     \* InitConfigFactory fails
  NoLogger,       \* a nil Logger, or a nil UDR section of it
  ParsableLevels  \* the level names logrus.ParseLevel accepts

\* What the NRF may answer to SendRegisterNFInstance: "ok" (registered,
\* the NfId is returned), "error" (not registered), "lost" (the NRF
\* registered the profile, the answer is lost and err is set).
RegisterOutcomes == {"ok", "error", "lost"}

\* Where the main goroutine is, and the ways the process can end.
Running == {"launched", "logging", "starting", "connected", "arming", "creating", "serving"}
Ended == {"log_failed", "rejected", "returned", "no_server", "fatal", "killed", "exited"}

VARIABLES
  file,        \* the configuration file (fixed per behaviour)
  phase,       \* the main goroutine's position, or how the process ended
  level,       \* the UDR logger's level
  registered,  \* the NRF holds the UDR's NF profile
  nfId,        \* the UDR holds the NfId the NRF gave it
  armed,       \* signal.Notify has run and the handler goroutine waits
  sig          \* "none", "handling" (the goroutine is in Terminate)

vars == <<file, phase, level, registered, nfId, armed, sig>>

-----------------------------------------------------------------------------
\* SetLogLevel, init.go lines 88-110: nothing without a Logger or its UDR
\* section, info for an empty or invalid level, else the level.
UdrLevel(lv, lc) ==
  IF lc = NoLogger THEN lv
  ELSE IF lc \in ParsableLevels THEN lc
  ELSE "info"

\* Initialize, lines 60-86: InitConfigFactory, SetLogLevel,
\* CheckConfigVersion, Validate, each error returned to action.
InitializeOK(f) ==
  f # Unreadable /\ f.version = "1.0.0" /\ f.valid

Init ==
  /\ file \in Files
  /\ phase = "launched"
  /\ level = "default"
  /\ registered = FALSE
  /\ nfId = FALSE
  /\ armed = FALSE
  /\ sig = "none"

\* initLogFile, main.go lines 66-85 with LogFileHook, logger.go lines
\* 49-73: a log file or the key directory that cannot be created is
\* returned to main, which prints it and exits.
InitLogFile ==
  /\ phase = "launched"
  /\ phase' \in {"logging", "log_failed"}
  /\ UNCHANGED <<file, level, registered, nfId, armed, sig>>

\* action's call of Initialize, main.go lines 44-56.
Initialize ==
  /\ phase = "logging"
  /\ level' = IF file = Unreadable THEN level ELSE UdrLevel(level, file.logger)
  /\ phase' = IF InitializeOK(file) THEN "starting" ELSE "rejected"
  /\ UNCHANGED <<file, registered, nfId, armed, sig>>

\* Start, lines 127-136: mongoapi.SetMongoDB; an error is logged and Start
\* returns, so action returns nil and the process exits.
ConnectMongo ==
  /\ phase = "starting"
  /\ phase' = IF file.mongo = "up" THEN "connected" ELSE "returned"
  /\ UNCHANGED <<file, level, registered, nfId, armed, sig>>

\* Lines 138-164: routes, InitUdrContext, SendRegisterNFInstance; an error
\* is logged and Start goes on.
Register ==
  /\ phase = "connected"
  /\ \E o \in RegisterOutcomes :
       /\ registered' = (o \in {"ok", "lost"})
       /\ nfId' = (o = "ok")
  /\ phase' = "arming"
  /\ UNCHANGED <<file, level, armed, sig>>

\* Lines 166-179: signal.Notify and the handler goroutine.
Arm ==
  /\ phase = "arming"
  /\ armed' = TRUE
  /\ phase' = "creating"
  /\ UNCHANGED <<file, level, registered, nfId, sig>>

\* Lines 181-201: NewHttp2Server may fail (nil server: log and return) or
\* warn (a server and an error).  http and https serve until the listener
\* returns; any other scheme leaves err as NewHttp2Server set it, so a
\* warning ends in Fatalf and no warning in a silent return.
CreateServer ==
  /\ phase = "creating"
  /\ \/ phase' = "no_server"
     \/ /\ file.scheme \in {"http", "https"}
        /\ phase' = "serving"
     \/ /\ file.scheme \notin {"http", "https"}
        /\ phase' \in {"returned", "fatal"}
  /\ UNCHANGED <<file, level, registered, nfId, armed, sig>>

\* ListenAndServe(TLS) returns only with an error: Fatalf, line 199.
ServeFails ==
  /\ phase = "serving"
  /\ phase' = "fatal"
  /\ UNCHANGED <<file, level, registered, nfId, armed, sig>>

\* SIGTERM arrives.  Before signal.Notify the default action kills the
\* process; after it the handler goroutine wakes and calls Terminate while
\* the main goroutine goes on.
Sigterm ==
  /\ phase \in Running
  /\ sig = "none"
  /\ IF armed
       THEN sig' = "handling" /\ UNCHANGED phase
       ELSE phase' = "killed" /\ UNCHANGED sig
  /\ UNCHANGED <<file, level, registered, nfId, armed>>

\* Terminate, lines 279-290, then os.Exit(0): SendDeregisterNFInstance
\* removes the profile when the UDR knows its NfId and the NRF answers;
\* a failure is only logged.
Terminate ==
  /\ sig = "handling"
  /\ phase \in Running
  /\ \E deregistered \in {FALSE, TRUE} :
       registered' = (registered /\ ~(deregistered /\ nfId))
  /\ phase' = "exited"
  /\ UNCHANGED <<file, level, nfId, armed, sig>>

Next ==
  \/ InitLogFile \/ Initialize \/ ConnectMongo \/ Register \/ Arm
  \/ CreateServer \/ ServeFails \/ Sigterm \/ Terminate

Spec == Init /\ [][Next]_vars

-----------------------------------------------------------------------------
(* Properties.                                                             *)

\* Terminate is the UDR's only "deregister with NRF": a SIGTERM that
\* arrives while the NRF holds the UDR's profile is handled by the
\* goroutine that runs Terminate, not by the default action that kills
\* the process.
SigtermAfterRegistrationTerminates ==
  [][Sigterm /\ registered => sig' = "handling"]_vars
=============================================================================

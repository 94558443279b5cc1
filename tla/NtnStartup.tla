------------------------------ MODULE NtnStartup ------------------------------
(***************************************************************************)
(* Life of the NTN-QoF process (src/NFs/ntnqof/ntnqof.go, service/init.go, *)
(* context/context.go, factory/factory.go).                                 *)
(*                                                                         *)
(* main runs the cli action: Initialize reads the YAML file, sets the log  *)
(* levels and checks the version; Start fills the NTNContext singleton,    *)
(* installs a SIGTERM handler goroutine and the routes, creates the HTTP   *)
(* server and listens with the configured scheme.  An error returned by   *)
(* Initialize is logged by main and the process exits; Start has no error  *)
(* result, so a return from it ends the process as well.  The handler      *)
(* goroutine calls os.Exit(0) whenever SIGTERM arrives.                    *)
(*                                                                         *)
(* A configuration is a record mirroring factory.Config; the tables the    *)
(* handlers read (QoS, Slice, Classifiers, SliceAware) are one opaque      *)
(* value `tables`.                                                          *)
(***************************************************************************)
EXTENDS Naturals, Sequences
LOCAL INSTANCE SequencesExt

CONSTANTS
  Files,            \* the possible contents of the -ntncfg (or default) file
  Unreadable,       \* ioutil.ReadFile fails
  BadYaml,          \* yaml.Unmarshal fails
  NoInfo,           \* a nil *Info
  NoConfiguration,  \* a nil *Configuration
  NoSbi,            \* a nil *Sbi
  NoLogger,         \* a nil *logger_util.Logger
  Absent,           \* a nil section of the Logger
  Env,              \* os.Getenv, as a function of the variable name
  ParsableLevels    \* the level names logrus.ParseLevel accepts

QOF_EXPECTED_CONFIG_VERSION == "1.0.0"
QOF_DEFAULT_PORT_INT == 8000

\* The sections of the Logger config, in the order setLogLevel visits them,
\* and the logger each one is meant for (the "SMF" section sets the
\* NTN-QoF's own logger).
LogSections == << "SMF", "NAS", "NGAP", "Aper", "PathUtil", "OpenApi" >>
OwnLogger == [SMF |-> "NTN", NAS |-> "NAS", NGAP |-> "NGAP", Aper |-> "Aper",
              PathUtil |-> "PathUtil", OpenApi |-> "OpenApi"]
Loggers == {OwnLogger[s] : s \in {"SMF", "NAS", "NGAP", "Aper", "PathUtil", "OpenApi"}}

\* The zero NTNContext (package variable ntnContext), restricted to the
\* fields the process reads back: the tables, the SBI scheme, port and
\* binding address.
ZeroContext == [tables |-> NoConfiguration, scheme |-> "", port |-> 0, binding |-> ""]

NoListen == [scheme |-> "", binding |-> "", port |-> 0]

VARIABLES
  file,     \* the configuration file's content (fixed per behaviour)
  phase,    \* "launched", "initialized", "preparing", "serving", or how it ended
  cfg,      \* factory.QofConfig
  levels,   \* logger -> its level
  ctx,      \* the NTNContext singleton
  armed,    \* the SIGTERM goroutine is installed
  listen    \* what the HTTP server listens on

vars == <<file, phase, cfg, levels, ctx, armed, listen>>

-----------------------------------------------------------------------------
(* Configuration, factory/factory.go and free5gc/.../factory/config.go.    *)

\* InitConfigFactory: the file loads unless it cannot be read or parsed.
Loads(f) == f \notin {Unreadable, BadYaml}

GetVersion(c) == IF c.info # NoInfo THEN c.info.version ELSE ""

CheckConfigVersion(c) == GetVersion(c) = QOF_EXPECTED_CONFIG_VERSION

\* One section of setLogLevel, service/init.go lines 87-182: an empty level
\* sets info, an unparsable one logs a warning and sets info, a valid one is
\* applied.  In the NAS section the unparsable case sets the NTN-QoF's own
\* logger (logger.SetLogLevel, line 109), not the NAS one.
InvalidTarget == [OwnLogger EXCEPT !.NAS = "NTN"]

SetSectionLevel(lv, lc, sec) ==
  IF lc[sec] = Absent THEN lv
  ELSE IF lc[sec] = "" THEN [lv EXCEPT ![OwnLogger[sec]] = "info"]
  ELSE IF lc[sec] \notin ParsableLevels THEN [lv EXCEPT ![InvalidTarget[sec]] = "info"]
  ELSE [lv EXCEPT ![OwnLogger[sec]] = lc[sec]]

setLogLevel(lv, lc) ==
  IF lc = NoLogger THEN lv
  ELSE FoldLeft(LAMBDA acc, sec : SetSectionLevel(acc, lc, sec), lv, LogSections)

\* InitQofContext, context/context.go lines 53-119, after the nil-config
\* check (the config is &factory.QofConfig).  The tables are copied before
\* the sbi check; with a nil sbi it returns and the SBI fields stay zero.
\* The binding address is the value of the environment variable *named* by
\* bindingIPv4, else bindingIPv4 itself, else 0.0.0.0.
InitQofContext(c, cx) ==
  LET conf == c.configuration
      sbi  == conf.sbi
  IN  IF sbi = NoSbi THEN [cx EXCEPT !.tables = conf.tables]
      ELSE [cx EXCEPT !.tables  = conf.tables,
                      !.scheme  = sbi.scheme,
                      !.port    = IF sbi.port # 0 THEN sbi.port ELSE QOF_DEFAULT_PORT_INT,
                      !.binding = IF Env[sbi.bindingIPv4] # "" THEN Env[sbi.bindingIPv4]
                                  ELSE IF sbi.bindingIPv4 # "" THEN sbi.bindingIPv4
                                  ELSE "0.0.0.0"]

-----------------------------------------------------------------------------
(* ntnqof.go main: the process starts and runs the cli action.             *)
Init ==
  /\ file \in Files
  /\ phase = "launched"
  /\ cfg = NoConfiguration
  /\ levels = [l \in Loggers |-> "default"]
  /\ ctx = ZeroContext
  /\ armed = FALSE
  /\ listen = NoListen

\* Initialize, service/init.go lines 56-79: InitConfigFactory, setLogLevel,
\* CheckConfigVersion; an error makes main log it and exit.
Initialize ==
  /\ phase = "launched"
  /\ IF ~Loads(file)
       THEN phase' = "rejected" /\ UNCHANGED <<cfg, levels>>
       ELSE /\ cfg' = file
            /\ levels' = setLogLevel(levels, file.logger)
            /\ phase' = IF CheckConfigVersion(file) THEN "initialized" ELSE "rejected"
  /\ UNCHANGED <<file, ctx, armed, listen>>

\* Start up to the server creation, lines 199-223: InitQofContext (which
\* dereferences config.Configuration at line 61; Info is set, the version
\* check passed), the SIGTERM goroutine, the routes.
StartPrepare ==
  /\ phase = "initialized"
  /\ IF cfg.configuration = NoConfiguration
       THEN phase' = "crashed" /\ UNCHANGED <<ctx, armed>>
       ELSE /\ ctx' = InitQofContext(cfg, ctx)
            /\ armed' = TRUE
            /\ phase' = "preparing"
  /\ UNCHANGED <<file, cfg, levels, listen>>

\* http2_util.NewServer returns nil (it cannot open the key log file):
\* Start logs the error and returns, lines 228-233.
ServerNil ==
  /\ phase = "preparing"
  /\ phase' = "no_server"
  /\ UNCHANGED <<file, cfg, levels, ctx, armed, listen>>

\* Line 239 reads factory.QofConfig.Configuration.Sbi.Scheme: a nil Sbi panics
\* in the main goroutine.  Otherwise an http or https scheme serves, or dies
\* in Fatalln when the listener fails; any other scheme leaves err nil and
\* Start returns, lines 239-248.
StartServe ==
  /\ phase = "preparing"
  /\ \/ cfg.configuration.sbi = NoSbi /\ phase' = "crashed" /\ UNCHANGED listen
     \/ /\ cfg.configuration.sbi # NoSbi
        /\ cfg.configuration.sbi.scheme \in {"http", "https"}
        /\ \/ phase' = "serving"
              /\ listen' = [scheme |-> cfg.configuration.sbi.scheme,
                            binding |-> ctx.binding, port |-> ctx.port]
           \/ phase' = "fatal" /\ UNCHANGED listen
     \/ /\ cfg.configuration.sbi # NoSbi
        /\ cfg.configuration.sbi.scheme \notin {"http", "https"}
        /\ phase' = "returned" /\ UNCHANGED listen
  /\ UNCHANGED <<file, cfg, levels, ctx, armed>>

\* SIGTERM reaches the goroutine of lines 217-221: Terminate, os.Exit(0).
Terminate ==
  /\ armed
  /\ phase \in {"preparing", "serving"}
  /\ phase' = "signalled"
  /\ UNCHANGED <<file, cfg, levels, ctx, armed, listen>>

Next == Initialize \/ StartPrepare \/ ServerNil \/ StartServe \/ Terminate

Spec == Init /\ [][Next]_vars

-----------------------------------------------------------------------------
(* Properties.                                                             *)

\* Spec 7: a configuration error is rejected when the configuration is
\* read, and no failure crashes the process: the NTN-QoF ends up serving, or
\* stops with a reported error (or on SIGTERM).  It never panics and never
\* ends silently with nothing served.
ServesOrReportsStop == phase \notin {"crashed", "returned"}

\* The level a present section of the Logger configuration asks for: its
\* own level when logrus parses it, info when it is empty or invalid.
ConfiguredLevel(lc, sec) == IF lc[sec] \in ParsableLevels THEN lc[sec] ELSE "info"

\* Once Initialize has read the file, every logger runs at the level its
\* own section gives (info for an empty or invalid level, as setLogLevel's
\* warnings "... Log level [%s] is invalid, set to [info] level" say), and
\* a logger whose section is absent keeps its default: no section of
\* setLogLevel changes another section's logger.
LevelsAsConfigured ==
  (phase # "launched" /\ Loads(file)) =>
    \A sec \in DOMAIN OwnLogger :
      levels[OwnLogger[sec]] =
        IF file.logger = NoLogger \/ file.logger[sec] = Absent THEN "default"
        ELSE ConfiguredLevel(file.logger, sec)
=============================================================================

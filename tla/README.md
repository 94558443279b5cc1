# TLA+ models of the 5G-core / NTN QoS-bridging functions

This directory holds TLA+ models of the two network functions in `src/NFs`:

* **QoF** (`src/NFs/qof`, plus `src/free5gc/NFs/qof`): on the mobile-core
  side. It receives per-session descriptors from the SMF, translates the
  S-NSSAI and the 5QI, and relays the session to the NTN-QoF.
* **NTN-QoF** (`src/NFs/ntnqof`, plus `src/free5gc/NFs/ntnqof`): on the
  satellite side. It translates DSCP and slice, resolves the classifiers'
  ingress addresses, and programs two remote classifier agents (RAN side and
  CN side) concurrently.

All modules are checked with TLC. `PROJECT.json` lists the components, the
runs, the mutants, the map from definitions to source lines, the findings
and the hazards.

## 1. Inventory

### Components, their state and operations

| Component | Source | State | Operations |
|---|---|---|---|
| Translation tables (NTN) | `ntnqof/producer/handler.go` 74-87, `ntnqof/context/context.go` | `NTN_Self().QoS` (map uint8->uint8), `Slice` (list), `SliceAware`. They are set once by `InitQofContext` and never written again. | `TranslateQoS` is a map read that yields 0 on a miss. `MapSlice` is a linear scan that returns nil on a miss. |
| Interface resolver | `ntnqof/producer/handler.go` 89-129 | none; it reads `Classifiers.{RAN,CN}.{Ingress,Egress}` | `GetIngressInterface`, `GetEgressInterface`. The egress one is called only from commented-out code. |
| Provisioning fan-out | `ntnqof/producer/handler.go` 162-211, 312-374 | Per request: the handler goroutine, a `sync.WaitGroup` and two `Pipe` goroutines. Remotely: the rules each classifier has installed. | `HandleSessionCreateQof` and `Pipe` |
| Admission-control broadcaster | `ntnqof/producer/handler.go` 131-160, 255-310 | Per request: the handler, a WaitGroup and two `AdmissionControl` goroutines. Remotely: the ADM each classifier holds. | `HandleAdmissionControl` and `AdmissionControl` |
| Session relay (QoF) | `qof/producer/handler.go`, `free5gc/NFs/qof/consumer/ntn_5G_session.go` | `QOF_Self().Slice` (S-NSSAI -> RAN/CN/id) and `QoS` (5QI -> DSCP), both read-only | `HandleSessionCreateQof` (QoF), `TranslateSnssai`, `Translate5QI`, `NTN5GSessionCreate` |
| SMF notification | `free5gc/NFs/smf/consumer/nsmf_qof.go` | none | `SendSessionQOF`: one blocking POST to the QoF |
| QoF context and default-slice trigger | `free5gc/NFs/qof/context/context.go` | the `qofContext` singleton (Slice, QoS, NtnUri, SBI fields) | `InitQofContext` fills it from the config. `InitDefaultSlice` POSTs the last default slice's ControlPlane to the NTN admission endpoint. Their caller, the QoF `service` package, is not in the tree. |
| Configuration and bootstrap | `ntnqof/ntnqof.go`, `ntnqof/context`, `ntnqof/factory`, `ntnqof/service`, `qof/factory`, `*/util` | the package-level config and context singletons, the loggers' levels | `InitConfigFactory`, `setLogLevel`, `CheckConfigVersion`, `InitQofContext`, `Start`, `Terminate` |
| free5gc NRF/UDR code | `free5gc/NFs/nrf`, `free5gc/NFs/udr` | upstream | not part of the bridging core |

### How the components interact

The interactions are HTTP+JSON calls:

* SMF calls QoF (`SendSessionQOF`).
* QoF calls NTN-QoF (`NTN5GSessionCreate`, and `InitDefaultSlice` for
  admission control).
* NTN-QoF calls the RAN and CN classifier agents (`Pipe` and
  `AdmissionControl`). It makes these two calls concurrently, from two
  goroutines per request, and joins them with a `sync.WaitGroup`.

gin runs each incoming request on its own goroutine, so requests run
concurrently. They share only the configuration, which is read-only after
startup. No state is persisted.

### What is hard in this code

* **The WaitGroup barrier.** `Pipe` and `AdmissionControl` call `wg.Done()`
  only on their success path; every error path returns before it.
  `wg.Wait()` then never returns. The handler goroutine leaks and the HTTP
  caller waits forever.
* **Partial failure.** Neither the QoF nor the NTN-QoF looks at a peer's HTTP
  status code. The QoF also ignores the relay's error, and after a failed
  translation it does not `return`: it writes 500, relays anyway and then
  writes 200.
* **Numeric edges.** The NTN-QoF maps the slice id string to a slice with
  `uint8(ParseUint(...))`, so ids wrap modulo 256 and a parse error becomes
  slice 0. The QoF relays a DSCP as `uint16`, but the NTN-QoF decodes it
  into a `uint8`.
* **Silent defaults.** A missing DSCP maps to 0. An unresolved ingress
  address is `""` with a nil error.
* **No timeouts.** Every outbound call is made with `http.Client{}`, which has
  no timeout.

### Properties that make each component correct

* **Resolver:** the result is the first configured candidate in the session
  address's /24, or the resolution fails (violated, with the failure
  ignored: `session_pipe_target`).
* **Fan-out:**
  * A 200 answer means both classifiers installed their leg.
  * The answer comes only after both legs.
  * Every request is answered.
  * Each rule carries the UE address (violated: `session_pipe_instruction`).
  * Each rule is on the requested slice, with a resolved ingress and a
    configured DSCP (violated: `session_pipe_target`).
* **Admission:**
  * A 200 answer means both classifiers were pushed.
  * Every request is answered.
* **Relay, end to end:**
  * An unknown S-NSSAI is terminal: nothing is provisioned for it.
  * The SMF is told 200 only if the NTN side provisioned the session.
* **Startup:**
  * A configuration error is reported, never a crash.
  * Each logger runs at the level its section gives (violated: an invalid
    NAS level sets the NTN-QoF's own logger, `startup_log_level`).
* **UDR:** a SIGTERM after the registration reaches `Terminate`, the only
  deregistration.
* **Fan-out:** both request handlers of the NTN-QoF do what `FanoutAbstract`
  promises.

## 2. Plan

Done in this sitting:

1. `SubnetResolve`: the resolver.
2. `NtnSession`: the PDU-session fan-out.
3. `NtnAdmission`: the admission broadcast.
4. `QofRelay`: the QoF handler.
5. `QofNtn`: the composition SMF -> QoF -> NTN-QoF -> classifiers.
6. `NtnStartup`: the NTN-QoF process lifecycle.

Done in the second sitting:

7. `FanoutAbstract`: the abstract two-leg fan-out. `NtnSession` and
   `NtnAdmission` are shown to refine it.
8. `UdrService`: the UDR process lifecycle and its NRF registration.
9. The `startup_log_level` run was retired to make room for
   `udr_deregistration`. The log-level defect stays listed as a hazard.

Done in the third sitting:

10. A `stalled` classifier outcome in `NtnSession`, used by `session_hang`.
    It covers the missing timeout at `handler.go:174`.
11. `QofAdmission`: the QoF's `InitQofContext` and `InitDefaultSlice`,
    composed with the NTN-QoF's admission endpoint. `admission_broadcast`
    now runs on this composition, and `MCNtnAdmission` was retired.

Done in the fourth sitting:

12. `resolve_first_match` was folded into `session_fanout`: the resolver's
    exhaustive check reads only constants, so TLC evaluates it once there,
    and `MCSubnetResolve` was retired.
13. The freed run is `startup_log_level`, which checks `LevelsAsConfigured`
    and finds the `init.go:109` defect.
14. `PipeInstructionAsSpecified` now also requires a configured DSCP
    translation (spec section 7, TranslationNotFound), which covers the
    `TranslateQoS` zero default at `handler.go:76`. `session_pipe_instruction`
    gets a second body whose DSCP the QoS table lacks.
15. `QofInitializeFails`: the `Initialize` error path of the QoF's
    `qof.go`.

Done in the fifth sitting, after a review:

16. Removed as restating their definitions: `ResolvesFirstMatch` (with
    its reference `ResolveReference`), `BudgetsMatchConfig` and
    `ServingMatchesConfig`; the run `ntn_startup` went with the last, and
    `NtnStartup` is now checked by its two violation runs only.
17. Removed as resting on an unjustified fairness assumption:
    `DefaultSliceReturnsUnlessPushFailed` and `SmfReturnsUnlessLegFailed`.
    Every exchange uses `http.Client{}` without a timeout, so
    `QofAdmission` no longer assumes the pushes end, `QofNtn` assumes no
    fairness at all, and `FanoutAbstract` promises only the answer, not
    that a leg settles.
18. `PipeInstructionAsSpecified` was split: `PipeCarriesUeAddress` fails on
    every installation and hid the other conjuncts, so it has its own run
    (`session_pipe_instruction`), and `PipeTargetAsRequested` runs in
    `session_pipe_target` on one body that exercises all three silent
    fallbacks.
19. `DeregisteredOnExit` also failed on `Terminate`'s own failure branch.
    It is replaced by `SigtermAfterRegistrationTerminates`.
20. `QofAdmission` gained the nil-config early return of `InitQofContext`
    and `DefaultSlicePostFails`: a POST that fails after the request was
    sent.

Left for later sittings:

* **Admission with stalls.** A `stalled` outcome for `AdmissionControl`,
  as `NtnSession` now has.
* **Admission with error statuses.** The admission run could include
  classifiers that answer with an error status. This would show the same
  unchecked status there that `session_status_unchecked` shows for
  `Pipe`.
* **A bodyless admission trigger.** Spec section 6 says the trigger needs
  no body, but `HandleAdmissionControl` answers 400 to a body `BindJSON`
  cannot decode, an empty one included (`AdmissionRejected`). Showing it
  needs a violation run, and all twelve run slots are taken by findings
  judged more important.

## 3. Modules and runs

Every run is listed in `PROJECT.json`, which also gives its mutants. A
mutant is a plausible bug in a mapped definition, and TLC must find the
run's property violated under it.

### `SubnetResolve`, checked in `MCNtnSession`

An address is abstracted to a record `[net, host]`: `net` is its /24 and
`host` the rest. An unparseable string is `BadAddr`. The empty-string
result is `NoAddr`.

* `ParseCIDR24` models `net.ParseCIDR(ip + "/24")`.
* `IPNetContains` models `ipnet.Contains(net.ParseIP(c))`. A candidate that
  does not parse is a nil IP, which no network contains.
* `FirstContained` is the `range` loop, written as a RECURSIVE operator.

The resolver has no property of its own: what it returns is checked
where it is used, in the ingress of every installed rule
(`PipeTargetAsRequested`).

### `NtnSession` / `MCNtnSession`

**State:**

* `session`: the body each request carries.
* `hpc`: the handler goroutine's position: idle, waiting in `wg.Wait`, or
  answered.
* `status`: the HTTP status written.
* `wg`: the WaitGroup counter.
* `leg`: for each `Pipe` goroutine: idle, running, done (it called Done),
  or failed (it returned early).
* `installed`: for each classifier, the requests whose rule it accepted.
  The rule itself is `PipeArgs(r, side)`: the arguments of the
  `go Pipe(...)` call.

**Actions:**

* `SessionRejected`: the `BindJSON` error path. gin's `BindJSON` aborts
  with 400, and the handler's `c.JSON(500)` after it only appends a body,
  so the caller sees 400.
* `SessionPanics`: a nil `QosMatch` or `SliceMatch`, or an unknown slice,
  dereferenced before the goroutines start. gin's recovery answers 500.
* `SessionDispatch`: `wg.Add(2)` and both spawns.
* `Pipe`: one goroutine's whole body. Its exchange with the classifier is
  one of:
  * `accepted`;
  * `rejected`: a non-2xx status, which Pipe does not check;
  * `unreachable`;
  * `lost_response`: applied remotely, but the response is lost;
  * `stalled`: the classifier takes the connection and never answers.
    `http.Client{}` has no timeout, so the goroutine stays blocked in
    `client.Post` (leg state `stalled`).
* `Respond`: `wg.Wait` returns and the handler answers 200.

The handler's work before the spawn reads only immutable configuration, so
it is one step.

**Bounds:**

* Two concurrent requests.
* Six bodies:
  * a good one;
  * slice id 257;
  * a non-numeric slice id;
  * an unmapped DSCP;
  * a RAN address outside the RAN classifier's /24;
  * a nil SliceMatch.
* Malformed JSON is a seventh body.
* One slice, and a CN classifier with two ingress addresses in the same
  /24.

**Fairness:** weak fairness on `Pipe` and `Respond`.

* A started goroutine gets scheduled, and `Pipe` takes one of the
  outcomes of its `Outcomes` constant, `stalled` among them in
  `session_hang`: a stall is modelled, never excluded by fairness.
* The pass run's `Outcomes` leave `stalled` out; its refinement
  property needs only the fairness on `Respond`, since `FanoutAbstract`
  does not promise that a leg settles.
* Arrivals are not forced.

`CHECK_DEADLOCK FALSE`: with a finite set of requests the server really
does go idle. A hung request is the subject of a liveness property
instead.

| run | expect | shows |
|---|---|---|
| `session_fanout` | pass | Three properties: <ul><li>`TypeOK`</li><li>`SuccessImpliesInstalled`: a 200 means both classifiers hold the rule.</li><li>`FanoutRefinement`: the handler and its `Pipe` goroutines implement `FanoutAbstract` (see below). This includes the old barrier property: 200 comes only after both legs confirmed. It also includes the liveness: a request whose legs both confirmed is answered.</li></ul> |
| `session_hang` | violation | `EveryRequestAnswered`: a failed leg leaves the handler in `wg.Wait()` forever. A stalled classifier does the same, since there is no timeout. This is the only run whose `Outcomes` include `stalled`. The pass run leaves the stall out. |
| `session_status_unchecked` | violation | `SuccessImpliesInstalled`: a classifier answers non-2xx, and the caller still gets 200. |
| `session_pipe_instruction` | violation | `PipeCarriesUeAddress`, on the well-formed body alone: its rule carries the UPF address instead of the UE address (lines 362 and 366). |
| `session_pipe_target` | violation | `PipeTargetAsRequested`, on one body with id "257", a RAN address outside the RAN classifier's /24 and a DSCP the QoS table lacks. Its RAN rule is installed on slice 1, with ingress `""` and satellite DSCP 0; spec sections 4.1, 4.2 and 7 ask for NotFound, AddressResolutionError and TranslationNotFound instead. |

### `NtnAdmission`, and the composition `QofAdmission` / `MCQofAdmission`

**`NtnAdmission`** has the same structure as `NtnSession`. Each
classifier holds the last ADM it accepted. `BuildADM(side)` is the loop of
lines 279-293.

**`QofAdmission`** puts the QoF's side of admission control in front of
it. `N == INSTANCE NtnAdmission` shares the NTN-QoF's variables, and the
QoF adds five variables:

* `qconf`: the configuration;
* `qof`: down, up, crashed, or exited after a failed `Initialize`;
* `qctx`: the Slice and NtnUri fields of `QOF_Self()`;
* `dpc`: where `InitDefaultSlice` is;
* `dret`: what `InitDefaultSlice` returned.

The actions are:

* `QofInitializeFails`: `main` and `action` of `qof.go`. `QOF.Initialize`
  returns an error; `action` and `main` log it and the process exits
  without calling `QOF.Start`, so no admission is triggered.
* `QofInitContext`: `InitQofContext`. A nil config is logged and leaves
  the context zero (lines 57-60). It panics on a nil `Info` (line 62)
  or a nil `Configuration` (line 64). Otherwise it copies the tables and
  `NtnUri`.
* `InitDefaultSlice`: lines 126-161.
  * `DefaultControlPlane` is a `FoldLeft` over the slices: the last default
    slice wins, and with none the body is JSON `null`.
  * `ParseUint8` is `uint8(ParseUint(id, 10, 8))`: an out-of-range id
    becomes 255 and a non-numeric one 0.
  * An empty `NtnUri` or an unreachable NTN-QoF is an error. Otherwise the
    body, decoded as the NTN-QoF's `ControlPlane` (`NtnBodyOf`), becomes
    request `Trigger` of `HandleAdmissionControl`.
* `DefaultSlicePostFails`: the connection drops after the request was
  sent and `client.Post` returns an error (lines 155-160), whatever the
  NTN-QoF goes on to do with the request.
* `DefaultSliceAnswered`: the answer is read and nil returned, whatever the
  status; a failed `ReadAll` returns an error.
* `NtnReceive`, `NtnPush`, `NtnRespond`: the NTN-QoF's actions. The
  request other than `Trigger` comes from another caller, with any body,
  a malformed one included.

The caller of `InitQofContext` and `InitDefaultSlice` is not in the tree.
The model assumes, as the NTN-QoF's `Start` does, that the context is
filled first.

**Bounds:**

* Two concurrent admission requests: the QoF's and one other.
* Seven QoF configurations:
  * a deployable one with slice 1 as default;
  * default id 300;
  * no default slice;
  * no `ntnUri`;
  * no `info`;
  * no `configuration`;
  * a nil config.
* Two NTN slices with different forward and return budgets, so a swapped
  or shifted control is visible.

**Fairness:**

* weak fairness on the QoF's start-up steps and on the NTN-QoF taking the
  QoF's request;
* weak fairness on `Respond`: a handler whose WaitGroup reached zero
  returns;
* none on `AdmissionControl` or on the QoF's POST, which use a client
  without a timeout and may never end; none on the other caller.

Run `admission_broadcast` (pass) checks:

* `SuccessImpliesPushed`.
* `AdmissionFanoutRefinement`: the handler implements `FanoutAbstract`.
  A request whose two pushes confirmed is answered. The hang after a
  failed push is the same defect `session_hang` shows.
* `DefaultSliceNilOnlyIfPushed`: when `InitDefaultSlice` returns nil, both
  classifiers hold the budget table. The QoF never reads the status, so
  this holds only because its body always decodes on the NTN-QoF side. A
  QoF that sent the id as a string would get 400, and would still return
  nil (the mutant `NtnBodyOfStringId`).

### `FanoutAbstract`: what a fan-out handler promises

The abstract state has three parts:

* each request is `idle`, `pending` or `answered`;
* the status the caller got;
* each leg is `open`, `confirmed` or `unconfirmed`.

The actions are:

* `Refuse`: an error status, with nothing sent;
* `Dispatch`;
* `Settle`: a leg settles exactly once;
* `Answer`: 200, only when every leg confirmed.

Weak fairness on `Answer` says the answer comes once every leg has
confirmed. A leg is not promised to settle: it is an HTTP exchange without
a timeout. An unconfirmed leg may leave the request unanswered. That is
what the code does. The spec's "never hangs" is the separate
`EveryRequestAnswered`, which `session_hang` shows violated.

The refinement mapping (`Fanout == INSTANCE FanoutAbstract WITH ...` in
both modules) works as follows:

* `Legs` are the two classifier sides.
* A handler `waiting` in `wg.Wait()` is `pending`.
* `LegView` maps the `Pipe` (or `AdmissionControl`) goroutine's state:
  * idle or running is `open`;
  * `done` (it called `wg.Done`) is `confirmed`;
  * `failed` (it returned before `Done`) is `unconfirmed`.

A mutant `Respond` that does not wait for the barrier breaks the
refinement. So does an `AdmissionControl` that never calls `Done`.

### `QofRelay` and the composition `QofNtn` / `MCQofNtn`

**`QofRelay`** is the QoF handler:

* `QofPanics`: a nil S-NSSAI dereferenced in `TranslateSnssai`.
* `QofRelayStart`:
  * the error branches that write 400 or 500 and fall through;
  * the NTNSession built from `TranslateSnssai` and `Translate5QI`;
  * the POST.
* `QofRespond`: the final `c.JSON(200)`.

gin keeps the first status written (`Write`).

**`QofNtn`** composes `QofRelay` and `NtnSession` on shared variables:

* `smf` is `SendSessionQOF` (`SmfReturns`, `SmfUnreachable`).
* `QofReceive` is the QoF handler. It also writes the JSON body the
  NTN-QoF decodes (`MobileSessionOf`):
  * the uint16 DSCP no longer fits the NTN-QoF's uint8;
  * an empty id is non-numeric;
  * an empty address does not parse.
* `NtnReceive`, `NtnPipe` and `NtnRespond` are the NTN-QoF's actions.
* `RelayReturns` and `RelayUnreachable` end `NTN5GSessionCreate`.

**Bounds:**

* Two SMF requests.
* Five bodies:
  * three well-formed ones, with two known and one unknown S-NSSAI (the
    unknown one differs from a known one in its SST only);
  * one with a JSON type error;
  * one with a syntax error.
* Two configured slices.

**Fairness:** none. Only safety is checked. Every exchange of the chain
uses a client without a timeout, so no step is forced.

| run | expect | shows |
|---|---|---|
| `e2e_relay` | pass | With unreachable peers: <ul><li>`ProvisionedOnTranslatedSlice`: a rule is installed only on the slice its S-NSSAI translates to.</li><li>`SmfTold200OnlyIfTranslated`: the SMF is told 200 only for a decoded, known S-NSSAI.</li></ul> |
| `e2e_dscp_overflow` | violation | `E2ESuccessImpliesProvisioned`: a DSCP of 300 makes the NTN-QoF answer 400, and the SMF is told 200. |
| `e2e_unknown_snssai_slice0` | violation | `ProvisionedOnTranslatedSlice`: with a slice 0 configured, an unknown S-NSSAI is relayed with id "" and provisioned on slice 0. |

### `NtnStartup` / `MCNtnStartup`

This module is the NTN-QoF process:

* `main` and `action` (`ntnqof.go`);
* `Initialize`: `InitConfigFactory`, then `setLogLevel`, then
  `CheckConfigVersion`;
* `Start`, split into three steps:
  * `StartPrepare`: `InitQofContext`, the SIGTERM goroutine and the routes;
  * `ServerNil`: a nil server;
  * `StartServe`: the scheme dispatch, `ListenAndServe` and `Fatalln`;
* `Terminate`: SIGTERM reaching the handler goroutine.

`phase` records where the process is, or how it ended. `levels` gives each
logger's level. `setLogLevel` is a `FoldLeft` over the six Logger sections.
`InitQofContext` is an operator that fills the context record.

**Inputs:** the configuration file is fixed per behaviour and is drawn
from:

* a deployable file (http, default port, bound through `$NTN_IP`);
* https on a literal address;
* an empty bind address;
* a wrong version;
* no info;
* no configuration;
* no sbi;
* scheme `ftp`;
* an unreadable file;
* invalid YAML;
* 64 Logger variants: each of SMF, NAS and NGAP absent, empty, valid or
  invalid.

Processes may stop, so `CHECK_DEADLOCK FALSE`. Both runs of this module
are violation runs.

| run | expect | shows |
|---|---|---|
| `startup_config_crash` | violation | `ServesOrReportsStop`: a file without a configuration section passes `Initialize` and panics in `InitQofContext`. A file without sbi panics at `init.go:239`. An ftp scheme exits silently. |
| `startup_log_level` | violation | `LevelsAsConfigured`: each logger runs at its own section's level (info when empty or invalid, as the warnings say). A file whose NAS level is invalid sets the NTN-QoF's own logger to info (`init.go:109`, `InvalidTarget`), overriding the SMF section, and leaves the NAS logger at its default. |

### `UdrService` / `MCUdrService`

This module is the free5gc UDR process:

* `main.go`: `main`, `action`, `initLogFile`;
* `init.go`: `Initialize` (with `SetLogLevel`), `Start` and `Terminate`.

The NRF is abstracted to one flag, `registered`: it holds the UDR's
profile. `nfId` says whether the UDR knows the id it needs to deregister.

`Start` is split at each point where it can end or be interrupted:

* `ConnectMongo`: a MongoDB error returns.
* `Register`: the NRF answers ok, error, or registers the UDR and the answer
  is lost.
* `Arm`: `signal.Notify` and the handler goroutine.
* `CreateServer`: a nil server, an http/https server, or any other scheme.
* `ServeFails`: `Fatalf`.

`Sigterm` is the signal arriving:

* before `Arm`, the default action kills the process;
* after it, the goroutine runs `Terminate`, whose deregistration may fail.

The files are variants of one deployable file, each differing in one
field.

| run | expect | shows |
|---|---|---|
| `udr_deregistration` | violation | `SigtermAfterRegistrationTerminates`, an action property: a SIGTERM that arrives while the NRF holds the profile goes to the goroutine that runs `Terminate`. TLC finds a SIGTERM between `SendRegisterNFInstance` (`init.go:159`) and `signal.Notify` (line 167), which kills the UDR by the default action with its profile still at the NRF. The other registered ends are listed as hazards: a nil server, a `Fatalf`, and a lost registration answer that leaves no NfId. |

## 4. Not modelled, and why

* **The QoF's start-up.** `qof.go` calls `QOF.Initialize` and `QOF.Start`
  of a `service` package that is not in the repository. `QofAdmission`
  models what `qof.go` does with their results (an `Initialize` error ends
  the process) and the two functions `Start` would call,
  `InitQofContext` and `InitDefaultSlice`. What `Initialize` reads and
  when `Start` calls the two functions is not in the tree.
* **The SBI, NRF and client fields that `InitQofContext` sets** (lines
  72-119). No code in the repository reads them.
* **TLS files, the NRF client set-up in `InitQofContext` and log output.**
  These are I/O with no effect on the properties.
* **The classifier agents and the NRF.** These are external services. A
  classifier agent is abstracted to what it has accepted.
* **`json.Marshal` of the request structs.** It cannot fail for these plain
  structs, so the error branches after it are unreachable.
* **The UDR's `Exec`.** Nothing in the tree calls it (`main` runs
  `action`, which calls `Start`). Its line 268 tests `err` instead of
  `errormessage`.
* **The NRF subscription handlers and the UDR notification callbacks.**
  These are gin wrappers around NRF producer functions that are not in the
  tree. The callbacks are loops that POST to subscribers and only log
  errors, so no state of this repository changes.
* **Path constants.** They have no behaviour.

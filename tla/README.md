# A verification project for the kcp reference architecture

The repository describes and implements a multi-tenant cloud platform on top of
[kcp](https://kcp.io).  Its program is `project/platform` (Go: the platform server, its
controllers and a CLI) with `project/console` (TypeScript: the web console).  Around it are
architecture documents and deployment files for third-party systems.

This directory holds TLA+ models of the program, TLC runs over small instances of them,
and TLAPS proofs for all instances.  Paths below are relative to `project/platform`
unless they begin with `project/` or `docs`.

* [1. Inventory](#1-inventory)
* [2. What is modelled, and how it corresponds to the code](#2-what-is-modelled-and-how-it-corresponds-to-the-code)
* [3. Runs](#3-runs)
* [4. Proofs](#4-proofs)
* [5. Findings](#5-findings)
* [6. What is not modelled](#6-what-is-not-modelled)
* [7. Plan](#7-plan)

To repeat a run: `tlc -config <cfg> <module>.tla`; to repeat the proofs:
`tlapm <module>_proofs.tla`.


## 1. Inventory

### The parts and what passes between them

```
 browser / kubectl plugin                                    kcp (embedded or external)
     |   /auth/*, /oidc/*, token           EnsureTenantWorkspace    |
     +-----------------------> login handlers --------------------->+  workspaces, grants,
     |   /clusters/<id>/...                                         |  APIBindings
     +-----------------------> kcp proxy -------------------------->+
                                                                    |
     server start --> kcp bootstrap (workspaces, schemas, exports) ->+
                  --> controller manager  <--- watches --------------+
                         VirtualMachine controller --- status ------>+
                                  |
                                  +--> KubeVirt (a mock in this repository)
```

| component | source | state | operations |
|---|---|---|---|
| tenant provisioning | `pkg/kcp/bootstrap.go` | none of its own; everything is in kcp | `EnsureTenantWorkspace`: create workspace, wait for Ready, grant, bind, resolve the cluster name |
| login handlers | `pkg/auth/handler.go` | `pendingCodes`: platform codes with the tokens they stand for, in memory, one mutex | authorize, callback, code exchange with sweep, refresh pass-through, `/auth/me`; discovery and JWKS are stateless |
| server lifecycle | `pkg/server/server.go`, `pkg/kcp/embedded.go`, `cmd/platform/main.go` | context, `kcpErrCh` (capacity 1), `httpErrCh`, goroutines | start kcp, wait, install, serve, stop |
| VirtualMachine controller | `pkg/controllers/compute/virtualmachines/reconciler.go` | a cache, a work queue and timers in every server; the object's status in kcp | `Reconcile`: deletion, Pending to Provisioning, Provisioning to Running |
| kcp bootstrap | `pkg/kcp/bootstrap.go`, `pkg/kcp/confighelpers` | none of its own, a discovery cache | create or update every embedded file, again and again until all succeed; stages that wait for workspaces |
| CRD installer | `pkg/bootstrap/installer.go` | none of its own | for a server without kcp: read, then create or update each CRD until the first error; wait for Established |
| kcp proxy | `pkg/proxy/proxy.go` | a token verifier | authenticate, find the tenant's cluster, rewrite the path, forward |
| CLI | `cmd/cli/main.go` | kubeconfig and token cache, files shared by processes | login with a local callback server, `get-token` with refresh, kubeconfig merge |
| APIExport generator | `hack/gen-core-apiexport` | none | a pure merge of schema files |
| console session | `project/console/app-shell/src` (`auth.ts`, `layout.tsx`, `api.ts`) | two keys of `localStorage`, shared by tabs; the layout's state in each | login and callback, expiry, sign-out, token and cluster of each request |
| console pages | `project/console/app-shell/src/pages`, `dashboard.tsx` | what each page holds, flags of requests under way | list, show, create, edit, delete, navigate |
| console pilets | `project/console/pilets` | as the pages | earlier copies of the list, detail and create pages |

### What is hard in it

* **Concurrency without locks in kcp.**  Any number of requests, also of several servers,
  run `EnsureTenantWorkspace` for one user.  Nothing serialises them but the outcome of each
  single call ("already exists").  The same holds for two servers that bootstrap one kcp.
* **Partial failure.**  Every call to kcp may fail, take effect and lose its answer, or be
  the last thing the process does.  No record of progress is kept: repeating everything is
  the only recovery.
* **Stale reads.**  The controller decides on a cache; what protects it is the
  resourceVersion in its writes.
* **Lost wake-ups.**  A controller that returns `nil` at the wrong moment never hears of
  its object again.
* **Single-use secrets and time.**  A platform code is deleted, swept and compared with
  a deadline twice, before and after an unlock.
* **Files without locks.**  The CLI's processes read, empty and rewrite two files that they
  share with each other and with `kubectl`, and a refresh token may be good only once.
* **Answers out of order.**  The console's pages never cancel a request; a component may have
  been handed another name, or be gone, when an answer comes.
* **Browser tabs.**  They share two keys of `localStorage`, without a lock and without being
  told of each other's changes.
* **Channels with two receivers, and shutdown.**  Four goroutines, one context and two
  channels decide how `Server.Run` ends.

### What makes each component correct

* *Provisioning*: success means that the user can work; half-done work of an earlier attempt
  is completed, not trusted; tenants never share anything; every request ends; a user who
  keeps trying gets in.
* *Login*: nobody gets tokens whose workspace is not provisioned; a code is good once and
  for 60 seconds; a client that comes in time is not refused because of somebody else's
  exchange.
* *Lifecycle*: it serves only when everything is set up; it stops when told to; it says so
  when it stopped for a failure.
* *Controller*: phases follow each other without gaps or repetition per incarnation of the
  object; a phase has a VM behind it; nothing is forgotten; a VM comes up.
* *Bootstrap*: done means that everything is there, in the version of this release, and in
  workspaces that are ready; an administrator's create-only object is not overwritten.
* *CLI*: no process undoes a refresh that another has saved; a token that is printed is good for the
  margin, as far as the CLI was told when it ends; a login sticks, and leaves the rest of the kubeconfig alone.
* *Console*: a request carries a live token, of the login whose cluster it is for; a session
  that was signed out of stays out; pages show what their URL says and stop spinning; an edit
  overwrites nothing the user has not seen; the pages say the same of the same object.

`PROJECT.json` lists the hazards one by one, each at its line, with the properties
that watch over it, or with what is known to go wrong there.

## 2. What is modelled, and how it corresponds to the code

`PROJECT.json` ("map") gives the lines for every definition; this is the outline.

### TenantAccess: what the login handlers may rely on

The contract of the `WorkspaceProvisioner` interface (`pkg/auth/handler.go:76-82`).  A call
is made for a user; it fails, or it succeeds and the user has access.  Access may become
complete without the caller ever hearing of it, a user may give access up, the server may
stop.  Workspaces, bindings and polling do not appear.

### TenantProvisioning: EnsureTenantWorkspace

One action per call to kcp, in the order of the code: `CreateWorkspace`, `SeeReady`,
`EnsureClusterAdmin`, `EnsureAPIBinding`, `Resolve`.  Each of the creating calls has two
outcomes after it took effect: the code goes on, or the answer is lost and the request
fails.  `CallFails` is a call without effect, `WaitTimesOut` the 60-second deadline,
`ServerStops` the end of the process.  `pc` is the position of a request in the function;
slots are reused, so that one slot stands for any number of requests one after the other.
kcp's phases (`KcpSchedules`, `KcpInitializes`, `KcpPublishesUrl`) and the tenant, who is
cluster-admin and may delete the grant or the binding, are external.

What is abstracted: names of clusters are tagged tuples, so that an identifier, a path and
the fallback `cluster` can be told apart; a poll that sees nothing is no step.
`disturbed` remembers that the tenant removed something while a request was in progress:
the code cannot promise anything then.

### LoginFlow: the login handlers

`HandleAuthorize`; `HandleCallback` as `BeginCallback` (the provider's code is redeemed and
the provisioner is called), `ProvisionerStep` (an instance of `TenantAccess`), and
`IssueCode` or `RedirectWithTokens`; `handleAuthCodeExchange` as `LookupAndSweep` (the
critical section under `pendingMu`) and `AnswerExchange` (the second look at the age, after
the unlock, and the answer); `HandleMe` as `BeginMe` and `AnswerMe`.  A stop of the server
empties the map.  A platform code is identified with the login it was drawn for: 32 random
bytes do not repeat.  Accepting a request and forgetting everything are operators of their own
(`AcceptCallback`, `AcceptMe`, `Forget`), so that they can be joined with the calls of the real
provisioner in place of `TenantAccess`.

### PlatformLogin: the login handlers over the real provisioner

`LoginFlow` and `TenantProvisioning` in one process.  `Login` is `LoginFlow` with the state of
the provisioner in place of the promise: who has access is read off the workspaces of kcp,
the status of a call off the position of the request.  A handler's request and its call to the
provisioner share the slot (`BeginRequest`); the call goes on by itself (`Provision`) and the handler
answers when it has returned (`Answer`); a stop of the process ends the calls in flight
and forgets the codes in the same step (`ProcessStops`).  `ImplementsLoginFlow` says that all this
is a behaviour of `LoginFlow`, and `TokensOpenWorkspace` what it means from end to end.

### ServerLifecycle: Server.Run

`main` is the position of `Run`; `kcp`, `mgr`, `shutdown` and `http` are the goroutines it
starts; `kcpErrCh` and `httpErrCh` are the channels, `cancelled` the context.  One action per
branch of each `select` and per end of each goroutine.  `mode` is the choice between
embedded, external and no kcp.  What is installed in between is one step that succeeds,
fails, or never comes.  The specification is called `RunSpec`, with `RunInit` and `RunNext`, because
`ServerStart` takes the module together with `Bootstrap`.

### ServerStart: Server.Run and the bootstrap it calls

One process of the server, `self`, of which `ServerLifecycle` is the outside and `Bootstrap`
what happens between `main = "install"` and the end of the installation
(`pkg/server/server.go:146-153`).  The two steps of `ServerLifecycle` that were free there
get their causes: `BootstrapReturned` needs that `Bootstrap` has returned `nil`,
`BootstrapFailed` that it has failed, was cut off by the context or could not be called.  A kcp
that does not run serves no call.  Other servers bootstrap the same kcp, and the administrator
edits, marks and deletes.

### VMReconciler: the VirtualMachine controller

For one name of a VirtualMachine and any number of servers, each of which runs the
controller (there is no leader election).  `log` holds all versions kcp has stored, so that
an index is a resourceVersion; `pos` is how far each server's cache has come.  `Reconcile`
is the function from the read to the write: deletion branch, the `switch` on the phase, the
mock's VMI.  `UpdateStatus` is the write that kcp accepts if the version is still current,
with its answer received or lost; `UpdateFails` is a refused or failed write, whose error
puts the key back into the queue.  `ServerRestarts` loses cache, queue and timers.  The
tenant creates, edits, deletes (at once or in the foreground) and recreates.

### Bootstrap: what a server installs when it starts

`Bootstrapper.Bootstrap` and the upsert loop of `confighelpers`, run by any number of
servers against one kcp.  `stage` is the workspace a server is working on, `todo` the files
of the pass it has not been through, `errs` whether an earlier one has failed.  A file is up
to three calls, each an action of its own so that anything can happen in between: `Create`
or `AlreadyExists`, then `GetCreateOnly` or `Get`, then `Update` or `Conflict`.  `EndPass` is
the decision at the end of a pass: on to the wait, or the cache is dropped and all files
come again.  `NextStage` and `GiveUp` are the ends of `waitForWorkspaceReady` and of the look
at the identity hash, `Ensure` is `ensureAPIBinding` and `ensureClusterAdmin`.

`fresh` stands for resourceVersions: a server is in it from its `Get` until somebody else
writes the object.  The content of an object is abstracted to whose it is, the release's or
the administrator's (`edited`).  `cache` is the discovery cache, which knows the kinds of a
workspace only if kcp served them when it was filled.  kcp serves, initialises and publishes
in its own time; the administrator edits, marks and deletes, but does not delete a workspace
(what goes with it is kcp's business).  `failed` and `removed` are history: they name the
only two excuses an object may have for not being there.

### CliTokenCache: the CLI's processes and their files

`platform-cli login`, `login --token` and `get-token` (`cmd/cli/main.go`), any number of
processes of one user, with the refresh pass-through of the server (`handleRefreshToken`)
between them and the provider.  `file` and `token` are the token cache, `kube` the
kubeconfig.  A process reads a file in one step and writes it in two, because
`os.WriteFile` empties it first (`TruncateCache`, `WriteCache`; `TruncateKube`,
`WriteKube`), and two writers can leave a broken one.  `get-token` is `GetToken` (load and
look at the expiry), `refreshToken`, the save, and `PrintCredential`; a save that fails stops
a login but not a `get-token` (`GoesOn`).  `login` is `LoginAnswered`, the save, and
`mergeKubeconfig` (`LoadKube`, `Merged`, `TruncateKube`, `WriteKube`).  Any process may be
killed between two steps.

External are the provider, of three kinds in any combination (it gives refresh tokens, takes
each only once, says when tokens expire), and `kubectl config`.  A token is the login it is
of, its place in the chain of refresh tokens, the expiry the CLI knows and the end of the ID
token, which live `Life` and `IdLife` in any relation; the code uses the access token's expiry for the ID
token, and `ToldTooLate` are the tokens for which that is too late.  Entries of the kubeconfig other than the platform's are one
set.  A kubeconfig that cannot be parsed is replaced by a fresh one, as in the code, so that
`EntriesKept` speaks only of changes made alone and to the end; `alone`, `settled`, `entered`,
`intact` and `lost` are history variables for such premises.  `lost` holds the logins whose
newest refresh token was in the memory of a killed process, or in an answer that did not
arrive: with a provider that rotates, such a session is over.

### ConsoleSession: the session in the tabs of a browser

`project/console/app-shell/src/auth.ts`, `layout.tsx` and the two API clients, in any number
of tabs that share `localStorage` and nothing else.  `storage` says of which login its two
keys are: the response with its expiry, and the ID token alone.  `Response`, `After` and
`GetToken` are `getAuthResponse` and `getToken` as functions of the keys and the time: what
they return and what they remove.  A tab is mounted (`MountCallback`, with either key refused
by the browser; `MountBroken`; `MountPlain`), rendered again, sent to the provider and back, and
left.  A request is put together in two steps, with anything other tabs do in between: `ShellAsks` looks up the
cluster and `ShellSends` the token, which are `baseUrl` and `headers` of `api.ts`; `PageAsks` and `PageSends` are those
of `pages/api.ts` and of the
pilets' copies, which do not remove an expired response but do not use it either.  `asking` is
the request a tab is at.  `Load` opens or reloads any URL, the callback of an earlier login among them, which is then stored
again; `signedOut` and `replayed` are history variables.  The
margin of 60 seconds is `Margin` ticks of the clock, and a login without an expiry carries the
zero time of Go (`ZeroTime`).

`leaving` is a navigation of the document that has begun and not ended: the layout sets
`authenticated` before `location.replace`, so the page can be rendered, and can send
requests, in between.

What is assumed: a single function of `auth.ts` runs to its end before another tab's sees the keys.
The standard does not promise that either; a `clearAuth` that falls between the two keys that
`handleAuthCallback` sets would leave a token without a response, which `NoExpiredToken` relies on never to be there.

### ConsolePages and VMStore: the pages and their requests

The pages of `app-shell/src/pages` and the dashboard in one tab.  `page` is the mounted
component with its state; `calls` are the requests, from `fetch` to the handler of the answer.
`MountOver` mounts a page and sends what its effect asks for; `Rename` is a route that keeps
its component while `:name` changes, so that only the effect runs again and the rest of
the state stays.  `To` chooses between the two, for `FollowLink` (the links each page offers on
the screen it shows), `JumpInHistory` and the handlers that navigate.  `Save`, `Create`,
`DeleteFromList` and `DeleteFromDetail` are the handlers up to their `await`;
`AnswerDeleteFromList`, `AnswerAndGo` and `AnswerFailure` what follows it.  A component that is gone ignores
its answers, but a handler that has succeeded still navigates, wherever the user is by then
(`Unmounted`; a new document, `Unloaded`, forgets everything).  kcp serves requests in any order,
refuses them, or does them and the answer is lost; other clients change and delete the same
objects.

`VMStore` is the contract: what a user confirms is done at most once, and an edit replaces
only the version that was in the form.  `WritesKeepPromise` is the refinement, under which
`seen` (what the form showed) and not the body sent is what counts.  `dirty`, `jumped`, `astray`
and `seen` are history variables.

### ConsoleViews: what is shown and what is sent

Two kinds of function, compared with each other.  What the list, the detail page, the
dashboard and the cluster pages make of one object (`Row`, `Detail`, `RunningVMs`,
`RowAvailable`, `HeaderAvailable`, `ConditionTable`), in separate copies of the same code; and
what a form makes of a specification and back (`FormOf`, `SpecOf`), with JavaScript's `||`, `??` and
`{...(condition && object)}` as what they do (`OrText`, `OrNumber`, `Field`, `Spread`).  The state
machine around them produces the specifications and statuses these functions can meet: another client
stores anything the schema allows, absent and empty optional fields included, and a
form is typed into field by field.  `Pilet` replaces the pages of the app-shell by those of the compute
pilet.

### Mutants

Definitions such as `Remaining_KeepsCode` are mutants: `Remaining` as a plausible bug would
have it, with a comment that names the bug.  No specification uses them.  Each property is
violated once the mutant that `PROJECT.json` names for it takes the place of the definition,
so that no property holds merely by the shape of its model.


## 3. Runs

| run | configuration | properties | what it shows |
|---|---|---|---|
| provisioning | `MCTenantProvisioning_all.cfg` | `SuccessMeansAccess`, `AnswerAddressesTenant`, `AccessOnlyByOwnLogin`, `ImplementsTenantAccess`, `RetryingUserGetsIn` | Concurrent logins of two users never succeed without full access or give a user access on behalf of another; they implement the promise of the WorkspaceProvisioner interface, so that every request is answered even if kcp never finishes a workspace; a user kcp works for and who keeps logging in gets in, whatever half-finished attempts, lost answers and stops came before. The cluster name handed out is that of the caller's own workspace, with a kcp that publishes the URL before it reports Ready. |
| login | `MCLoginFlow_all.cfg` | `DeliveredOnce`, `CodesAccountedFor` | A login with a platform code and one with a direct redirect, of two users, with two racing exchanges, the clock and stops of the server: each code is handed over once at most, and is lost only to its age or to a stop. |
| vm | `MCVMReconciler_all.cfg` | `PhaseMeansVMI`, `NoLostWakeup`, `PhasesInOrder`, `EventuallyRunning` | Two servers with stale caches, conflicts, failures and restarts, and a tenant who edits, deletes and recreates the VM: phases stay in order, no server forgets a VM, and one that is not deleted comes up. |
| bootstrap | `MCBootstrap_all.cfg` | `DoneMeansInstalled`, `NothingTooEarly`, `CreateOnlyKept`, `BootstrapEnds` | Two servers install into one kcp through failures, lost answers, restarts and an administrator: done means installed, in the right order and over nobody's create-only object, and the retrying comes to an end. |
| cli | `MCCliTokenCache_all.cfg` | `PrintedIsLive`, `SessionKept`, `LoginSticks`, `EntriesKept` | Two CLI processes of one user at a time, killed anywhere, over two files without a lock and a provider that may rotate refresh tokens: none undoes the refresh of another, a printed credential is good for the margin or was told too late an expiry, a login that runs alone sticks, and the rest of the kubeconfig survives it. |
| console_session | `MCConsoleSession_tabs.cfg` | `NoExpiredToken`, `OneIdentity`, `SignedOutStaysOut`, `LoginOpensConsole` | Two tabs over one localStorage, with logins, callbacks that are loaded again, expiry, half-written keys and sign-outs between the two lookups of a request: no request carries an expired token, nor a token of another login than the cluster it goes to unless that login was stored between the lookups; a session that was signed out of does not come back but by loading its callback again; and a login opens the console. |
| console_writes | `MCConsolePages_writes.cfg` | `BusyMeansWriting`, `ShowsURL`, `RowsLeaveWhenDeleted`, `TypedInputKept` | Two virtual machines, with answers in any order, links, history and reloads in between: the buttons are locked exactly while a write is under way, a page shows the VM of its URL, waits for it or was overtaken by an older answer, a row leaves the list only when its VM is deleted, and typed input stays in the form while the form stays on its VM. |
| console_settle | `MCConsolePages_settle.cfg` | `PagesSettle`, `WritesKeepPromise` | One virtual machine that others change again and again, and the cluster pages beside it: no page spins for ever, and an edit never replaces what others have changed in the meantime. |
| console_views | `MCConsoleViews_shell.cfg` | `PagesAgree`, `AvailabilityAgrees`, `EditsOnlyWhatWasTyped` | What the list, the detail page and the dashboard of the app-shell say of one VM and one cluster agrees, and an edit changes only the fields that were typed into, whichever client stored the VM. |
| console_pilet (violation) | `MCConsoleViews_pilet.cfg` | `CreatesAreWellFormed` | The create page of the compute pilet sends a specification without the disk the API requires, whatever is typed. |
| server_start | `MCServerStart_all.cfg` | `NilOnlyWhenStopped`, `ServesOnlyBootstrapped`, `NeverHeadless`, `ReasonEndsServer` | Server.Run with the bootstrap it calls, while another server bootstraps the same kcp, an administrator edits in it and kcp fails or a signal comes: the HTTP server and the controllers are started only over a kcp that has everything, Run returns nil only when told to stop or after its kcp failed, and no select or channel blocks it for ever once a signal, a kcp error or an HTTP failure has come. |
| platform_login | `MCPlatformLogin_all.cfg` | `TokensOpenWorkspace`, `ImplementsLoginFlow` | The login handlers over the real provisioner, for two users at once: tokens and codes are given out only to users with a complete workspace, and the whole behaves as the handlers over the promise of the interface, stops of the server included. |

**Bounds.**  `Requests`, `Exchanges` and `Servers` are slots that are used again and again,
so two or three of them give all interleavings of two or three concurrent activities over
unbounded histories.  Two are needed for any race, be it of one tenant with itself or of two
tenants; the proofs cover any number.  In the login run one user comes with a platform code
and the other with a direct redirect, and two requests and two exchanges race for them.
`MaxTime` ends the clock at a point
where every code that can be drawn can also expire, with `TTL = 1` so that the boundary
(exactly `TTL` old) is a value of its own.  `MaxTenantVersion` stops the tenant, not the
controller: with 4 the tenant can create a VM, delete it while it is provisioning, and
recreate it, and the controller's own updates come on top.  (With 5 there are 389,809 states
and nothing new.)  In `server_start` `MaxTroubles = 1`: the failures of `Run` and of kcp come on
top, and one trouble more for the bootstrap alone is what run `bootstrap` looks at.  In
`platform_login` the two users take one login each, at the same time, with one exchange, and `TTL = 0`
with a clock that stands still: the age of codes is the business of the login run.  (With a tick
of it, `MaxTime = 2`, there are 858,813 states and nothing new, nor is there with two logins of one user.)
`MaxTroubles` bounds the failed
calls, restarts and acts of the administrator of the bootstrap: two of them can meet in one
file, on one server or on both; two servers are needed for a conflict.  (Three, with the
invariants alone, take 600,587 states and find nothing either.)  Its files are one of each
kind per stage, in an alphabetical order that puts the export before the schema, as that of
the repository does.  `ServerLifecycle` has no bound of its own.
In the CLI's runs `MaxTime` lets tokens of every login expire, `MaxLogins = 2` lets a second
account take over the files, and `MaxSerial = 2` lets a refresh token be replaced once, which
is what two processes can get wrong; with `Life = 1` and `Margin = 1` reading, expiry and
printing fall on different ticks.

In `TenantProvisioning` both runs take a kcp that publishes the URL of a workspace before it reports Ready
(`UrlBeforeReady`), on which the cluster name depends; the proofs of the other properties are for either kind.

In `ConsoleSession` two tabs, two logins and a tick are enough for every pair of a tab
that stores, expires or signs out and one that has looked up the first half of a request; `Lifetimes = {1}` with
`Margin = 1` puts the two lookups of one request on both sides of the expiry, and `MaxReplays = 1` lets the
callback of one login be loaded again, any number of times and in any tab, while the other's is not.
(`MaxTime = 1` is the tick on which a login of the beginning expires; one made after it is still good.)  In `ConsolePages`,
`MaxCalls = 2` is what the dashboard needs, and lets a write meet a read, or an answer for the
old name one for the new; a third request in flight would be of a kind that is already there.
`FirstVersion` gives every object that is there at the start a version of its own, as kcp does, of those up to
`FirstRev`, and `MaxRev` bounds the versions kcp gives: in `console_writes` one change, by the user or by somebody else, meets
every state of the pages, with two virtual machines to move between; in
`console_settle` two changes let others change and recreate a virtual machine that is being edited, which
is what `WritesKeepPromise` needs.  `ConsoleViews` is a walk through inputs: a few values of each
field, the empty and the invalid among them; the `ACTION_CONSTRAINT` leaves out statuses while a form is
open, which the form does not read.

**Symmetry** is used in the two login runs and in that of the CLI, over slots that no definition
names; none of them has a liveness property.

**Fairness.**  `FairSpec` of a module assumes what the program's own scheduling gives: a
goroutine that can go on is scheduled, a call comes back, a deadline passes, a watch event
is delivered, a timer fires, a work queue is worked off.  It never assumes that kcp or the
network succeeds.  Two properties need more, and say so: `RetryingUserGetsIn` is about the users kcp
works for, with that as its premise (`KcpServes`: kcp finishes the user's workspace, and a call made again
and again for the user is not refused every time), and `EventuallyRunning` has strong fairness in its
specification (a reconcile that is attempted again and again gets through at some point).  For `Server.Run`
`RunFairness` schedules its goroutines; `StartFairSpec` adds it to `ServerStart` and assumes nothing of
kcp, of the bootstrap, of the HTTP server or of signals, so that the two liveness properties are about what happens after
one of them has given a reason to stop.

`BootstrapEnds` needs only that a server goes on and that kcp serves the
kinds of a workspace that exists; failures stop by themselves, at `MaxTroubles`.

In the console the browser runs the effects of a mounted page and ends the function it has begun (`WF` of `Mount` and
`Sends`), and ends a navigation it has begun, which has its turn between two functions of the page however many
of them run (`SF` of `Arrive`, in `ConsoleSession`); every request comes back, if only as a failure of the network, and its
handler runs (`ConsolePages`).  Nothing is assumed of the user; `PagesSettle` therefore has the
alternative that pages are opened for ever.

The model of the CLI assumes no fairness, and `ConsoleViews` needs none: in the CLI a process waits for the user or the network and
may be killed, and its properties are about what is left behind.

**Deadlock** is checked except in `ServerStart`, where `Run` returns, in
`Bootstrap`, which comes to its end, and in `PlatformLogin`, where the logins are used up and the clock ends.


## 4. Proofs

The proofs hold for all values of the constants that satisfy the named assumptions of the
module; `Users`, `Requests`, `Servers` and so on may be infinite.  The theorems of modules that
are composed stand together: those about `Bootstrap`, `ServerLifecycle` and `ServerStart` in
`ServerStart_proofs`, those about `TenantProvisioning` and `PlatformLogin` in `PlatformLogin_proofs`.

* **`PlatformLogin_proofs`, the provisioner** (assumptions `WorkspaceOfType`, `UrlBeforeReadyType`).
  `SuccessMeansAccess` is not inductive: that a request at `ok` sees its grant and its
  binding rests on what it did two steps before.  `ProvisioningInv` adds, for each position
  of the request, which of its steps can still be seen (`StepsStay`), that past the wait the
  workspace is Ready and stays so (`PastWaitIsReady`), that users are admins only at home
  (`AdminsAtHome`) and that a kcp which publishes early has published wherever it reports
  Ready (`PublishedIfReady`), so that the fallback of `ResolvedName` is never taken past the wait.  `NothingBeforeReady` and `AnswerAddressesTenant` are conjuncts of it; from it follow `SuccessMeansAccess`, `DedicatedWorkspace`
  (under `OneTenantPerWorkspace`: the truncated SHA-256 names do not collide; the one place
  where this is used) and `AccessOnlyByOwnLogin`.  `ImplementsTenantAccessSafety` shows that
  every step maps to a step of `TenantAccess` or to a stutter: what completes a user's access
  is that user's own request (`AccessGained`), what takes it away is the tenant
  (`AccessLost`), and success comes after completion (`ProvisioningInv`).
* **`LoginFlow_proofs`** (assumptions `LoginsType`, `ClockType`).  `LoginInv` states that the
  right to a login's tokens is in one place at a time: the provider's code, a callback,
  the map, one exchange, the client; each place knows the later ones to be empty
  (`OnePlaceFor`).  `DeliveredOnce` is its last conjunct.  `ServedIsProvisioned` connects a
  callback's slot with the provisioner's answer, and gives `TokensMeanAccess`.
  `CodesAccountedFor` is inductive with the types alone: wherever a code goes, the next place has it before
  the step is over (`StillHeld`), and what has expired stays expired (`StaysExpired`).
* **`PlatformLogin_proofs`, the platform** (assumption `PlatformLoginType`, and `OneTenantPerWorkspace`).
  One lemma per kind of step says what it is through the interface (`RequestStepPromised`,
  `BeginPromised`, `KcpStepHidden`, `TenantStepPromised`, `StopPromised`); both refinements rest on them,
  `ImplementsTenantAccessSafety` and `ImplementsLoginFlowHolds`, where the handlers' half of
  a step is joined to them.  The theorems of `LoginFlow_proofs` then hold of the platform, taken over
  through an instance of that module (`LP`): `TokensOpenWorkspace`, which is `TokensMeanAccess` with the
  provisioner's state in place of the promise, and in `PlatformKeepsCodes` what holds of the codes.
* **`ServerStart_proofs`, the lifecycle** (no assumptions).  `StopsHaveCauses` traces a `nil` result back:
  it comes from a closed `httpErrCh` or a done context, a closed channel comes from a
  shutdown, a shutdown from a signal or a kcp error.  `SetUpInOrder` says what each position of `Run` has
  behind it, and gives `ServesOnlyWhenSetUp`: the HTTP server is started only with a kcp that
  was ready and with controllers.
* **`VMReconciler_proofs`** (assumptions `ServersType`, `MaxTenantVersionType`).
  `ReconcilerInv` adds to the properties that a pending write was computed from a version
  the controller acts on, and that if kcp will accept it the VMI exists (`UpdatesAdvance`),
  that a deletion mark is never taken back (`DeletionStays`) and that incarnations are told
  apart (`UidsAreNew`).  `PhasesInOrder`, an action property, follows from the check of the
  resourceVersion: an accepted write was computed from the current version.
* **`ServerStart_proofs`, the bootstrap** (assumptions `NamesType`, `RankType`, `EachNameOnce`; the bound
  `MaxTroubles` plays no part in the argument).  `DoneMeansInstalled` says nothing of a
  server that is still at work.  `BootstrapInv` says for each place what has been achieved:
  earlier stages are installed, the files a pass has been through are there unless the pass
  has noted an error (`PassOK`), the object about to be updated is the one `Get` has seen,
  unmarked (`FileOK`).  Lemmas follow a server that goes on to its next file (`AdvanceStep`),
  enters a stage (`EnterStep`) or stays while others act (`SamePlaceStep`); all rest on
  `StateGrows`: what is there stays there, or is on record as removed.  `CreateOnlyKept`
  follows from `FileOK`, because a mark set after the `Get` outdates it.
* **`ServerStart_proofs`, the process** (assumption `SelfType`).  Each step of the process is one of `Bootstrap` or
  leaves it alone (`BootstrapStep`), and the same for `ServerLifecycle` (`LifecycleStep`), so that both
  are implemented and all their theorems hold of it.  `BootstrappedBefore` is the link: past the installation the
  process' own bootstrap is at `done`, which nothing takes back (`DoneStays`).  With
  `DoneMeansInstalled` it gives `ServesOnlyBootstrapped`.
* **`CliTokenCache_proofs`** (assumptions `LifeType`, `MarginType`, `BoundsType`).  That no
  refresh is undone rests on one fact: a refresh token that is not saved yet is in one hand
  (`OneHand`), so that nobody else can retire it (`RetiredByUse`, `NewGrant`).  `LoginSticks` needs
  what the processes still active after a settled login may have in memory (`SettledOK`), and
  both it and `EntriesKept` that a process which is alone finds the files as it has left them
  (`AloneOK`).  `PrintedIsLive` follows from `ShelfLife`: what is printed was looked at, or
  refreshed, at `since`, and its end is at least the margin later, for any `Life` and `IdLife`, unless the
  CLI was told a later one.
* **`ConsoleSession_proofs`** (assumptions `LifetimesType`, `MarginType`, `SessionBounds`).
  `NoExpiredToken` rests on what the two keys may hold: a token is never in `localStorage` without a response
  (`NoOrphanToken`), so that
  no request takes one that has not been through the expiry.  `OneIdentity` needs to know, for a request of which the
  cluster has been looked up, whose response the keys can hold by then: that of the cluster, none, or one stored since (`Known`).
  `SignedOutStaysOut` needs that the callback of a login waits in at most one tab, and that nobody has stored or
  signed out of it yet, as long as it has not been loaded again (`Fresh`).
* **`ConsolePages_proofs`** (assumptions `NamesType`, `PagesBounds`).  `PagesInv` adds to the types what
  each request in flight says of the page it came from (`CallsOK`), and that a page holds
  nothing or an object as kcp has given it (`GotOK`).  `StepShapes` reduces the many actions to a few
  shapes: a click, a write sent, another page or another name, a request served, an answer
  handled; every property
  is then proved shape by shape.  `PromiseKept` is the refinement of `VMStore`, initial states
  and every step.  `ShowsURL` and `TypedInputKept` rest on which gets can be under way: one for
  the page's own name where it shows another one (`HoldsURL`), and only one as long as the
  name has not changed (`OneGet`).
* **`ConsoleViews_proofs`** (assumptions `TypedType`, `ImagesType`: no image on offer has the empty
  name, `apis/compute/v1alpha1/virtualmachine_types.go:58`).  `EditsOnlyWhatWasTyped` is followed field by
  field: what a form is filled with is what the specification says (`FormIsMeaning`), and what is sent
  says what is in the form (`MeaningOfForm`), through the `||`, `??` and spreads of the code on each way
  (`SpecOfFields`, `MergeFacts`, `FieldThere`).  `PagesAgree`, for the app-shell (`~Pilet`), and
  `AvailabilityAgrees` compare what the pages compute from any object kcp can hold; the latter rests on
  three lemmas that reduce `find`, `some` and the table to one question (`LabelAsks`, `CountAsks`,
  `TableAsks`).  What run `console_pilet` finds for a few values holds for all: the pilet's form never makes
  a specification kcp accepts (`PiletCreatesNothing`), and the app-shell's always makes a well-formed one
  (`ShellCreatesAreWellFormed`).

The inductive invariants themselves (`ProvisioningInv`, `LoginInv`, `LifecycleInv`,
`ReconcilerInv`, `BootstrapInv`, `CliInv`) stand in the component's module, so that TLC can
check them too; they are in no configuration because the proofs establish them.  For the same
reason the type invariants, `DedicatedWorkspace`, `NothingBeforeReady`, `SchemasFirst`,
`ServesOnlyWhenSetUp`, `BootstrappedBefore` and `TokensMeanAccess` (which `TokensOpenWorkspace` says of the whole
platform) are theorems and in no run.  The invariants of the
console's session and pages stand in their proof modules.

Every safety property that a passing run checks is a theorem.  Only model-checked are the liveness
properties, because fairness and ENABLED are outside the prover:
`RetryingUserGetsIn`, `NeverHeadless`, `ReasonEndsServer`, `EventuallyRunning`, `BootstrapEnds`, `LoginOpensConsole`, `PagesSettle`, and the fairness part of
`ImplementsTenantAccess`, whose safety part is `ImplementsTenantAccessSafety`.


## 5. Findings

Each is a run that must find the stated sentence violated.

* **CreatesAreWellFormed** (`src/project/console/pilets/compute-pilet/src/VMCreatePage.tsx:34`, run console_pilet).  handleCreate of the compute pilet sends the disk as two flat fields, spec.diskSize and spec.image (lines 37-38), and so a specification without "disk". The API has the field "Root disk configuration. +required" (apis/compute/v1alpha1/virtualmachine_types.go:37-39), as the app-shell's own page sends it (project/console/app-shell/pages/VMCreatePage.tsx:49): kcp refuses every VM created in the pilet.

Four more disagreements between the code and what the repository says of it were met while modelling.  Their
properties stay in the modules, with the sentence they are taken from; each is violated when it
is checked in the passing run of its module (`KcpErrorIsReturned`: in run `server_start`).

* `ReturnsWorkspacePath` (`TenantProvisioning`): two comments (`pkg/kcp/bootstrap.go:233`,
  `pkg/auth/handler.go:80`) say that `EnsureTenantWorkspace` returns a workspace path; it returns
  a logical cluster name, or the object name `cluster`.
* `KcpErrorIsReturned` (`ServerLifecycle`): the shutdown goroutine can take the one kcp error
  from `Run`, which then returns `nil` (`pkg/server/server.go:286`, against line 313).
* `BackendCleanedUp` (`VMReconciler`): line 502 of the repository's `02-platform.md` promises that a deleted
  resource's backend is cleaned up; without a finalizer the VM is gone before `Reconcile` sees it.
* `RefreshedAutomatically` (`CliTokenCache`): line 226 of `02-platform.md` says that tokens "are
  cached locally and refreshed automatically"; a `get-token` that starts while another one writes
  the cache finds it empty and asks for a new login (`cmd/cli/main.go:124`).

In the console, by design or for want of a sentence that says otherwise: a handler that
succeeds after its page was left takes the user from wherever they are; an error of an earlier virtual
machine stays on the detail page when its name changes; after a conflict the edit form is not
read again, so that every further save is refused; a virtual machine named `create` has no detail page; the
dashboard shows 0 for a list that failed.  What follows here breaks what one would like to hold; the properties
near it name the case as an exception, so that the rest is checked and proved:

* *Two logins in one request* (`api.ts:21-36`): if another tab stores a login between the lookup of the cluster and that of
  the token, the request goes to the cluster of the earlier login with the token of the later.  (`OneIdentity`
  has `since`.)  It takes a write of another tab between two synchronous reads, which the standard of `localStorage`
  allows.
* *A callback loaded again* (`layout.tsx:214-217`): a reload before `location.replace` is through, or the URL from the history, stores the
  same response again, after a sign-out too.  (`SignedOutStaysOut` and `LoginOpensConsole` have `replayed`.)
* *An answer that comes late* (`pages/VMDetailPage.tsx:50-56`): the answer for an earlier name is shown under the URL of another virtual machine, if it comes last.
  (`ShowsURL` has `astray`.)
* *A form that is filled twice* (`pages/VMEditPage.tsx:38-57`): when the name changes under the edit form, the second answer
  replaces what has been typed since.  (`TypedInputKept` has `jumped`.)
* *A flag that outlives its virtual machine* (`pages/VMDetailPage.tsx:59-70`): when the name changes during a deletion, the buttons of the second virtual
  machine stay locked until the answer for the first, which then leaves the page.  (`BusyMeansWriting` is about the
  write under way, whichever virtual machine it is for.)

In the CLI, the login handlers and the provisioner in the same way:

* *The expiry of another token* (`pkg/auth/handler.go:361`, 380 and 522, `cmd/cli/main.go:244`): what clients are told of the ID token is the expiry of the access token,
  or a time long past if the provider gives none.  Told too early, a token that works is refreshed at every
  `get-token`, and a login of the console is stored and never usable; told too late, a token is printed after its end.  (`PrintedIsLive` has
  `ToldTooLate`; `NoExpiredToken` is about the expiry as told.)
* *A kubeconfig that is changed in between* (`cmd/cli/main.go:500-523`): what another process writes between the read and the write of a login is lost.
  (`EntriesKept` and `LoginSticks` have `alone` and `intact`.)
* *A workspace that is Ready before it has a URL* (`pkg/kcp/bootstrap.go:295-303`): the login hands out the name `cluster`, which is nobody's.
  Whether it can happen is kcp's business.  (`AnswerAddressesTenant` has `UrlBeforeReady`.)
* *An error that gets lost* (`pkg/server/server.go:286`): `KcpErrorIsReturned`, above; `NilOnlyWhenStopped` allows a `nil` after kcp has failed.

Not counted as findings either, because no sentence of the repository is contradicted: a kcp that
fails while the bootstrap retries is noticed only when the bootstrap gives up or a signal
comes; `ListenAndServeTLS` returns when `Shutdown` begins, so the process may exit before
the 5 seconds for open requests are over; abandoned platform codes stay in memory until
somebody else exchanges one; and the delayed requeue of the VM controller delays nothing,
because the event of the status update just made requeues the VM at once.  Two servers that
bootstrap one kcp at the same time can in principle refuse each other's updates for ever, each
outdating the other's `Get`; for this reason `BootstrapEnds` speaks of a server whose
fellows have come to an end.  The APIBinding of a tenant is created but not waited for: the
login can succeed before kcp has bound it.


## 6. What is not modelled

* Discovery, JWKS, health: stateless answers.
* A server that runs without a provisioner (`kcpProxy` not configured): the callback then
  skips the workspace; only the path with kcp is modelled.
* Token verification and cryptography: a token verifies or it does not.
* Rendering, formatting, logging, YAML, deep copies, CRD schemas: data without control.
* The kcp proxy, the CRD installer and the APIExport generator: see the plan.
* The console's pilets load, navigate and delete as the app-shell's pages do, with fewer
  features; what they show and create is in `ConsoleViews`, the rest is not modelled again.
* Two tabs whose storage operations interleave within one function of `auth.ts` (between the two keys that
  `handleAuthCallback` sets or `clearAuth` removes), and a page that has been opened under one login and is used under the next: the pages are modelled in one
  tab with one session, the session without pages.
* Everything third-party: kcp, Zitadel, KubeVirt, OpenMeter appear only as the
  nondeterministic environment the code has to cope with.


## 7. Plan

Done: the login path (`TenantAccess`, `TenantProvisioning`, `LoginFlow`), the lifecycle, the controller, the bootstrap of kcp, the CLI, the console.
In order:

1. `Proxy`: authentication and routing of `/clusters/<id>`, `/api`, `/apis`, `/openapi`; a
   user reaches only the cluster of their own tenant and a static token only what it is for.
   Then `PlatformAccess`.  Proof: isolation across the composition.
2. Pure algorithms as operators against reference definitions: the schema merge of
   `gen-core-apiexport`, `ClusterURL`, path rewriting of the proxy.
3. More proofs: what the console's session and its pages mean for each other once they are composed.
4. `InstallCRDs` (`pkg/bootstrap/installer.go`), which is unlike `confighelpers`: it returns on the
   first error and waits for each definition to be established.

Composition: `LoginFlow` uses `TenantAccess`, which `TenantProvisioning` implements, and
`PlatformLogin` puts the two together; `ServerStart` does so for `ServerLifecycle` and `Bootstrap`.
`PlatformAccess` puts the CLI or the console on one side, `LoginFlow` and the proxy in the
middle and `TenantAccess` on the other side, to ask whether a user who was let in reaches
their own cluster and no other.


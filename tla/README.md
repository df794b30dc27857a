# SkyGuard in TLA+

Specifications of SkyGuard: its daemon (Go, `internal/` and `cmd/skyguard`) and
its browser dashboard (`internal/dashboard/static/assets`), the TLC runs that
check them on small instances and the TLAPS proofs about them. Everything is
translated from the code; line references are in `PROJECT.json` ("map").
SkyGuard listens on decoy ports, scores who connects, bans addresses in the
host's firewall, and is managed from a dashboard that can also restrict ports,
manage containers and update SkyGuard itself.

## 1. Inventory

The daemon:

| Component | State | Operations | What makes it correct |
|---|---|---|---|
| **Bans** (`server/server.go`, `storage/bans.go`, `scores.go`, `settings.go`, `firewall/iptables.go`, `ufw.go`, `dashboard/handlers.go`) | table `banned_ips`, table `ip_scores`, auto-ban settings, whitelist, DROP rules in the kernel, the `SKYGUARD` chain per family | connections that score and auto-ban; manual ban and unban; start-up sync; release of expired bans, repair of the chain (every minute) | table and kernel tell the same story in the end; nobody bans what is whitelisted; a renewed ban is not lifted; an expired one is; every rule has a row that will lift it |
| **Port rules** (`portrules/manager.go`, `firewall/ports.go`, `server/ports.go`, `dashboard/ports.go`) | saved, active and stored rules, followed addresses, the trial and its timer, two chains per family | Set, Confirm, Revert, expire, SetFollow, Start, Maintain | an administrator cannot lock himself out for good: a restriction of a protected port is undone unless confirmed; only confirmed restrictions are stored; saved rules come back after a reload |
| **Updates** (`update/state.go`, `manager.go`, `cmd/skyguard/main.go`) | `state.json` (current, previous), staged binaries, phase, restart request | Launch at every start, Apply, Rollback, MarkGood, prune | the service always comes back; what it goes back to has worked; failing starts come to an end; the newer of installed and applied runs |
| **Inventory** (`inventory/manager.go`, `dashboard/software.go`) | targets in memory and in the database, scan job, reads left behind, the OSV switch | scan, check, switch, restart | what could not be read keeps its last result; a verdict is about packages that were compared; a restart forgets nothing |
| **Settings** (`storage/settings.go`) | key/value rows, copy in memory | load with "the file wins when edited", save | a dashboard choice survives a restart, an edit of the file wins once |
| **Services** (`server/services.go`, accept loops, `Stop`) | per service: listener, connections, enabled, error; the 4096-slot semaphore; the row of the last choice | start, switch on/off, accept, track, untrack, stop | statuses are true; slots are given back; Stop finds every connection and returns; a choice counts until the file changes |
| **Rate limiter, scan detector** (`analysis/`) | time stamps per address, ports per address | Check, RecordPort, cleanup | limits hold in every window, clean-up changes no answer |
| **Containers** (`containers/`) | engines on/off, caches, jobs | lifecycle, port moves, compose edits | one operation per container; a failed move is undone |
| **Honeypots, proxy, stealth** | sessions, the stealth firewall rules | protocol dialogues, relaying | every session ends; credentials reach the score |
| **Dashboard sessions, MCP** | login throttle, sessions | requests to all of the above | throttling, authorisation of tools |
| **Connection log, analytics, config, installer** | append-only tables, one file | insert, query, parse | retention |

The dashboard (`app.js`, `topology.js`, `charts.js`), one page with several
requests and timers in flight at any moment:

| Component | State | Operations | What makes it correct |
|---|---|---|---|
| **Screens and loading** | screen and parameters, the hash, what each part shows, loads in flight | navigate, filter, page, back, `refresh`, interval, scan poll | a live screen catches up; the hash is the view; parts of one load agree |
| **Settings and update panel** | switches, token, forms, the poll that follows an update | save, ask and decline, apply, follow | the page says what the server has; a verdict is about what runs; following ends |
| **Network map** | devices, positions, pins, gesture, cable, card, dialog, jobs; view, labels, outlines, minimap | answers, drag, pinch, cable, fold, search, rearrange | an answer in the middle of a gesture loses nothing and moves nothing; what is drawn is readable and about the devices |
| **Sheets and dialogs** | the open dialogs, the container and the address sheet, previews, forms | open, close, confirm, submit, answers | what is stated, and what is sent, is about what the title names |
| **Port rule editor** | the list of rules, the editor, the banner of a trial | edit, switch, delete, confirm, revert, countdown | an edit changes one rule; the banner goes with the trial |
| **Claims of the ports screen** | rules, listeners, switches to follow addresses | load, filter, switch | who is said to reach a port is who does |
| **Container lists** | search, filters, engine, bay, map | type, pick, load | bay and map show the same; a panel does not call open ports covered |
| **Figures and charts** | none: functions of the log, the clock and the zone | draw | numbers that belong together add up |

How they interact: handlers of connections, requests of the dashboard and the
one maintenance goroutine call the same `Server` methods. These change the
database and then the kernel (through `firewall`), with a mutex around each
firewall call but none around the pair. `portrules.Manager` has a mutex around
its operations, timers call back into it, and the maintenance goroutine calls
`Maintain`. `update.Manager` asks the port rules whether a trial is running
(`UpdatePrecheck`) and asks `main` to restart. The browser calls the handlers
and learns of changes only by asking again. Kernel rules outlive the process;
the database outlives the machine.

Hard here: the pairs of database and kernel updated in two calls; lists read
before and acted upon after a renewal; failing `iptables` calls that may have
done half their work, one family at a time; firewall reloads by others; a timer
that has fired and waits for a lock; files loaded and saved by three goroutines
without a lock; crashes between any two of these; in the browser, answers that
come late, in another order or never, for a page that has meanwhile been
redrawn, closed or opened for something else. The list with the lines is
`PROJECT.json` "hazards".

## 2. Modules

| Module | Models | Checked by |
|---|---|---|
| `BanLifecycle` | bans: connection handlers, operators, maintenance goroutine, database, kernel | `MCBanLifecycle`, runs `ban_*`; `BanLifecycle_proofs` |
| `ConfirmedChange` | abstract: a risky change is kept once confirmed and undone otherwise | implemented by `PortRules` |
| `PortRules` | `portrules.Manager`, `PortGuard`, the stored row, trial timers | `MCPortRules`, runs `ports_*`; `PortRules_proofs` |
| `UpdateState` | `update.Launch`, `Manager.Apply`, `Rollback`, `MarkGood`, `prune`, the restart in `main` | `MCUpdateState`, runs `update_*`; `UpdateState_proofs` |
| `Screens` | routing, loading and refreshing | `Console`; `Console_proofs` |
| `Settings` | the settings screen and the update panel with the handlers they call | `Console`; `Console_proofs` |
| `Console` | composes `Screens` and `Settings` | `MCConsole`, run `console`; `Console_proofs` |
| `NetworkMap` | the map's data, gestures, cards and dialogs | `Desk`; `Desk_proofs` |
| `Sheets` | sheets, close dialog, forms, confirmation | `Desk`; `Desk_proofs` |
| `LatestPlan` | abstract: a dialog that previews a change | implemented by `Sheets` |
| `Desk` | composes `NetworkMap` and `Sheets` | `MCDesk`, run `desk`; `Desk_proofs` |
| `RuleEditor` | the editor of port rules in several browsers | `MCRuleEditor`, run `rules`; `RuleEditor_proofs` |
| `Access` | claims of the ports screen beside the compiled chains | `Panels`; `Panels_proofs` |
| `Bay` | container lists, search, exposure | `Panels`; `Panels_proofs` |
| `Figures` | figures, flow, week, strip | `Panels`; `Panels_proofs` |
| `Readings`, `Charts` | pure functions: times, versions, update card, ticks, labels, bars | assumptions, evaluated in run `panels`; `Panels_proofs` (times, versions) |
| `Inventory` | `inventory.Manager` and the Software screen | `Panels`; `Panels_proofs` |
| `MapView` | view, labels, outlines, focus, minimap of the map | `Panels`; `Panels_proofs` |
| `Services` | listeners, accept loops, switches, `Stop`, stored choices | `Panels`; `Services_proofs` |
| `Panels` | composes these screens | `MCPanels` (with `Readings`, `Charts`), run `panels`; `Panels_proofs` |

Conventions: one action per stretch of code that nothing can interleave with
(in Go, one SQL statement, one call of the firewall under its mutex, one
stretch under `Manager.mu` without a call that the process may die in; in the
browser, from one event, timer or answer to the next `await`). A goroutine is a
record with a label `pc` and its local variables, a request in flight a record
with what it will say; what was read earlier stays in that record. `Budget` and
the `Max...` constants bound what comes from outside: failing calls, lost
requests, crashes, reloads, clicks. Definitions marked "mutant" are variants of
the definition next to them with a plausible bug; they are used nowhere else.

The compositions `Console`, `Desk` and `Panels` put components side by side
that share no state but are scheduled alike; a behaviour works in one of them,
and `Unused` (`Idle`) keeps the others from multiplying the initial states.

### 2.1 BanLifecycle

- `row`, `score`: the two tables. `rules`, `chain`: the kernel, per address and
  per family. A chain is "hooked", "loose" (its jump is gone) or "gone".
- `Connect, Check, Reassert, Record, Decide, IsBanned, BanRow, BanFw` follow
  `handleConnection`, `recordAndMaybeBan`, `maybeAutoBan` and `BanIP`
  statement by statement; `Credential` is the hook a honeypot calls. Which
  events score (blacklists, countries, rate limit, port scan) is left open: any
  connection may.
- `OperatorBan, OperatorUnban, SetAutoBan` are the dashboard's requests;
  `UnbanRow, UnbanScore, UnbanFw` are `UnbanIP`.
- `SyncList ... SyncDone` is `syncBans`, `ReleaseList ... LiftDone`
  `releaseExpiredBans`, `EnsureHooks` `ensureBanHooks`, in the order of `Start`
  and `maintenanceLoop`.
- `Tick`, `Flush`, `Restart`: the clock, another program's reload or
  `iptables -F`, a crash or reboot with a perhaps edited whitelist.
- `Prompt = TRUE` says that no ban ends at the very moment somebody works with
  it: the clock does not pass the end of a ban between the two halves of one
  `BanIP` (`ban_fw`), between a connection's check and its reassertion of the
  rule (`reassert`), or between the release of expired bans listing one and
  deleting it (`delete`). Durations are minutes at least, these halves are
  milliseconds apart; the race that remains would leave a rule without a row
  until the next unban or reboot. Only `ban_kernel` and `ban_orphan` use it, and
  only `RulesHaveRows` assumes it.

Left out: IP normalisation, reasons, logging, `ufw`'s numbering (its rules
behave like iptables rules without a chain), the order of the jump in `INPUT`,
`FORWARD` and `DOCKER-USER`, retention.

### 2.2 PortRules

- Rule sets are opaque. `Cover` says how each covers each protected port, and
  `riskyPorts` compares the cover before and after, as the code compares the
  covering rules.
- `SetBegin` reads the forwarded addresses before the lock (`protected()`,
  `addresses()`), `SetLock` takes it, `Enforce`/`Restore`/`SetFinish` are the
  calls made under it; the process may die between them. `Apply` goes family
  by family; an error leaves the later ones untouched and the one it hit in
  either state.
- A timer is "armed", "fired" (its goroutine waits for `mu`) or "done".
- `SetFollow`, `Start`, `Maintain` are one action each: between their calls
  nothing else can see or change what they use, and a crash there leaves what
  a failing `Apply` leaves.
- `KeepsConfirmed` is `Change!Spec` with `Change == INSTANCE ConfirmedChange`:
  what is kept is the stored row, what runs is `active`, or the stored rules from
  the moment an undo or a start is on its way to them (`Running`), and a change is
  being put in from the firewall call to the decision whether it needs a trial
  (`Phase`). This is about the Manager; that the firewall has its `active` rules
  is `KernelIsActive`, and a start without stored rules, which leaves the
  firewall alone, is among the hazards.

Left out: what `Compile` writes into the chains, validation, counters. The
protected ports do not change during a life.

### 2.3 UpdateState

- `file` is `state.json`, `staged` the binaries next to it, `installed` the
  version the service starts (0: a local build, compared by modification time,
  which `replaced` counts).
- `Launch` is one action, since nothing else runs yet; its recursion after a
  missing binary is that it stays in "launch".
- `InstallLoad`/`InstallSave`, `RollbackCheck`/`Load`/`Save` and
  `MarkLoad`/`MarkSave` take the three load-change-save sequences apart.
- `Bad` are the versions that never stay up for `GoodAfter`: they die
  (`DieEarly`) and never reach `MarkLoad`. The installed binary counts as staying
  up even if its version is in `Bad`: nothing watches its start, the launcher
  runs it as the last resort, and `DieEarly` ends only what was handed over to.
- `TypeOK` bounds the starts on record. More may happen: what a full disk does
  not keep is not counted, and applying a version again begins its count anew.

Left out: the release check (any version above the running one may be the
newest), download and verification (they fail in `InstallFail`), backups,
history, a `state.json` that cannot be parsed.

### 2.4 Console: Screens, Settings

- `current`, `range`, `metric`, `filter`, `offset`, `engine`, `view`, `hash` are
  the page's state and its address; `shown` keeps, for each part of a screen,
  with which parameters and at which age of the data (`world`) it was drawn.
- A `load` is one call of a screen's loader: the questions of its parts,
  answered (`AnswerSome`) or failed one by one, and rendered when all are in
  (`Settle`). `Refresh` has the guard that drops a refresh during another;
  `Tick` is the 30-second interval, `Poll` the poll of a scan.
- `lifted` are the cables that hang from a socket of the table (`ct.patch`) or
  from a device of the map (`ct.cabling`): `Lift` and `LetGo`. Either holds back
  the interval on every screen (`TickGuard`), and the first one takes the next
  click (`Hit`). What a cable connects is `NetworkMap`.
- `Show` and the `Pick...` actions are navigation and the controls; each
  writes the hash as the code does and reads it back by `applyParams`.
- `Settings` has per block what the server keeps (`srv`, `host`), what the page
  shows (`page`), the requests out (`calls`) and the open question (`confirm`).
  A handler loads, changes and saves; two that overlap save over each other.
  `follow` are the calls of `followUpdate`; `verdict` is what one reported.

Left out: login and its throttle, toasts, what a part looks like.

### 2.5 Desk: NetworkMap, Sheets

- `server` is what the engine has, `data` the last answer, `pos`, `pinned`,
  `saved` where devices are and what the browser remembers. `RenderMap` is
  `setData` with the redraw it makes; it may come in any state of `ptrs`,
  `drag`, `cable`, `card` and `dialog`.
- `Hands` are pointers (press, move, second finger, lift), `Buttons` fold,
  filter, rearrange, Escape and the card; `jobs` are requests to the server,
  carried out or refused in any order.
- `left`, `forgotten` and `loose` are history variables: where the operator
  left a device, and what redraws, saves and pinches cut off since.
- `Sheets` has the stack of open dialogs (`top`), the container sheet with its
  title, facts, limits, snapshots and logs, the address sheet, the close dialog
  (`arg`, `action`, `seq`, `plan`), the forms, `calls` that ask and requests
  `sent` that change something.

Left out: the force layout (it leaves a device at `Home` or where it was put;
that a new device does not push the others aside, the `fixed` set of
`topology.js:149-150`, is assumed by this one `Home`), drawing, what the create form's fields mean.

### 2.6 RuleEditor

Each page has the list it loaded, its editor and the countdown; `posts` are the
lists and decisions on their way. The server's side is `PortRules` with one
step for each request. A rule is an id, what it says and whether it is on.

### 2.7 Panels: Access, Bay, Figures, Readings, Charts, Inventory, MapView, Services

- `Access` has both readings of a rule list: `Shown`, what `app.js` tells of a
  listener, and `Admitted`, what the chains that `Compile` writes do with a
  packet, as seen through families, the scope of the chains, the whitelist and
  followed addresses. `ServeFollow` and `FollowAnswered` are the switches.
  `Protected` is the server's list of protected ports, of which the form's note
  names the first in the draft's range (`Warned`). What is said of bans
  (`BanWord`) stands beside what `internal/firewall` does: a firewall (`Firewalls`)
  is a method, the families it works for and those whose `FORWARD` jumps to its
  chain; `DroppedIn` says where it drops a banned source, `banCoverage` what the
  server tells of it. Two cases are excepted because the code says less than
  there is: `CoversForward` asks for IPv4 alone (`iptables.go:195`), and with
  `cover_forwarded` off nothing takes back a jump that an earlier start has made.
- `Bay` has the lists, the search with its delay, the map beside it and the
  panels on host ports and exposure.
- `Figures` has no state but the log and the clock; everything else is a
  function of them, as SQL and `app.js` compute it. The server sends the 8 busiest
  sources (`TopSent`) and the page lists 5 (`TopShown`). Sources with equal counts
  last seen at the same time come in the database's order: `TopLists` are all the
  lists it may send, and what is claimed is claimed of each.
- `Readings` and `Charts` are functions alone. Their assumptions compare, over
  bounded inputs, what the function does with what the words or the picture
  mean: a time within half a unit, the order of versions of the page with that
  of the server, ticks above the data, labels that do not overlap. `TimesTold` and
  `VersionsOrdered` are stated of a set, so that TLC evaluates them for some times
  and versions and section 4 proves them for all. The page counts a build that is
  no release as 0.0.0. An axis that
  begins at 23:00 is excepted: its second label is smaller than the first, the
  code does not take it for a clock, and its labels are not round hours.
- `Inventory` has the manager (scan queue, reads that stick, saves, OSV
  answers, restart) and the page with its headline, rows and sheet.
- `MapView` works with integer points and fractions for the view; `Placed` is
  the choice of labels, `Outline` the hull of a project, `InOrder` what
  `Array.prototype.sort` makes of both.
- `Services` is what lies behind the Honeypots screen. `svc` is `svcRuntime`
  (`ln` names the accept loop of the listener), `loops` the accept loops, each
  with the connection it has accepted and not yet tracked (`hand`), `visit` the
  connections, `tracked` and `slots` are `Server.conns` and `Server.sem`.
  `StartUp` is `buildServices` with the listeners of `Start`, under one lock;
  `SwitchOn`, `SwitchRefused`, `SwitchOff` are `SetServiceEnabled`; `Accept` and
  `Track` are the two halves of a turn of `acceptLoop`, between which `Stop` or a
  switch may come; `Leave` and `Release` are the deferred calls of a handler.
  `override` is the row in the database; `choice`, `asRead`, `unkept` and
  `slipped` are history variables. Left out: the back-off after an accept error,
  `ReservedPorts`, a dashboard that cannot start, the page's own request.

## 3. Runs

Passing:

| Run | Question | Bounds and why they are enough |
|---|---|---|
| `ban_race` | Can a handler, an operator and the maintenance goroutine together ban a whitelisted address, or lift a ban renewed meanwhile? | one address (properties are per address), one handler, one operator, two settings, rows left from before or none, one failing database call, one failing firewall call, one restart with an edited whitelist |
| `ban_kernel` | Is every kernel rule backed by a row? Does one refused ban spoil the sync? | two addresses of two families, every kind of row left, permanent and temporary bans, one of each failure, a reboot or crash |
| `ban_live` | Do expired bans leave and bans in force return? | two addresses, one of a family without iptables; two reloads, one `iptables -F`, one crash, one failing call |
| `ports_faults` | With failing calls: what is stored, who undoes what? | one operator, two trials, one protected port with three rule sets, one of each upset |
| `ports_settled` | Without failing calls: is a lockout always temporary, do memory, database and firewall agree between operations? | two operators, two trials (so that a trial is replaced), four choices on one protected port, a reload; a restart is in the other two |
| `ports_live` | Do lockouts end and rules come back? Is the Manager a `ConfirmedChange`? | one operator, two trials, a reload, a crash, moving addresses, fair timers and ticker |
| `update_faults` | Which version runs after any mixture of updates, rollbacks and failures? | three versions with a failing one in the middle, two updates, two concurrent rollbacks, one crash, failing exec, full disk, lost binary and replaced installed binary |
| `console` | Does the page show what the server has, whatever the order of answers? | a screen of every kind, two loads in flight (one more than the guard of `refresh` lets through by itself), opened on the overview of a week or on the containers, two clicks (one of them may lift a cable, which is then dropped or stays), one change of the data, one failing request; in the settings two or three presses of a block, two polls at once, one loss |
| `desk` | What may an answer in the middle of a gesture or a dialog do? | six containers, four of them replicas that fold into a stack, one in host mode, four networks; two gestures, one outside change, one failure, one reload; five clicks in the sheets over two containers and two addresses, so that a sheet is left, reopened and overtaken |
| `rules` | Do two browsers that post whole lists keep each other's rules apart? | two pages, two rules and a third to be added, one of them restricting a protected port, three clicks, one lost request, two answers out at once |
| `panels` | Is what the screens claim so? | rule lists of up to two rules of every shape (scope, family, mode, on or off), three listeners, two protected ports and a draft over both, every method and hook of the ban firewall; three containers of two engines; bursts of connections over days of three hours and a week of two days with a zone ahead of UTC, three sources of which two are sent and one is listed, so that either limit cuts one off; a scan of two places with one of each fault; five devices in two layouts; a managed service and two honeypots that want the same port, two connections and two slots, a second accept loop while the first still has a connection in hand, two turns of a switch, one edit of the file or taken port, two stops or crashes, one failing database call |

What they say of the code: a whitelisted address is never banned although the
whitelist is asked long before the ban is written (`NeverBanWhitelisted`,
`TargetsNotWhitelisted`); `DeleteExpiredBan` protects renewed bans
(`RenewedRowKept`); firewall first, row second keeps expired bans liftable
(`RuleBacked` without operators who unban, `ExpiredBanReleased`); the sync goes
on after a refusal (`BootRestoresBans`); a recreated chain is filled again
(`BanHealed`); restrictions reach the database only out of their own trial
(`StoredWasOnTrial`, `EndedByOwnTimer`); a refused change is put back
(`KernelIsActive`, with at most one firewall fault: a second one may refuse the
restoration); a lockout has somebody to undo it and ends (`LockoutHasTimer`,
`LockoutEnds`); without failing calls the Manager does what `ConfirmedChange`
promises (`KeepsConfirmed`); between operations all three copies of the rules agree
(`SettledIsStored`) and reloads are healed (`RulesHealed`); updates fall back
only to versions that stayed up (`PreviousIsGood`, `GoodStayedUp`) and the
service always returns (`ServiceReturns`).

Of the dashboard: a click that the guard of `refresh` swallows is made up for
by the interval (`LiveCatchesUp`, unless a dialog stays open or a cable hangs:
`desk_map_doubts` shows what the latter does to the other screens); the hash is the view and pills agree with the
ban list (`ScreensTrue`); switches and token are the server's but for the
answers that `SettingsShown` names, and no verdict is about a process that was
not restarted (`SettingsTrue`, `FollowEnds`); no answer shifts a device, loses
a cable or lets a hanging cable end at a closed one (`StaysPut`, `MapHolds`);
what a sheet states is of its title, a form is submitted once, and what is
confirmed is what is sent (`SheetsHold`, `ConfirmedIsSent`); the close dialog implements `LatestPlan`
(`ShowsLatest`, which is `Preview!Spec` with `Preview == INSTANCE LatestPlan
WITH ...`); a posted list differs from the shown one in one rule (`EditIsLocal`)
and the banner goes (`TrialLeavesPage`); the access column, the headline and the
ban column are what the kernel does, and no protected port goes on trial without
the form having named one that does (`ClaimsHold`, in `PortsTrue`);
a refused switch springs back (`SwitchesHonest`, in `PortsTrue` too); bay and map agree
(`ListsAgree`) and the exposure panel does not say "covered" of what bans do not
reach (`PortsPanelTrue`, both in `ContainersTrue`); bars and flow add up to the overview's
headline, which the listed sources fall short of only when the list is full
(`OverviewTrue`); verdicts on software were compared (`SoftwareTrue`); labels,
outlines and the view hold through any sequence of gestures (`MapTrue`).

Of the services (`ServicesTrue`): what the screen calls listening, off or failed
is so (`StatusTrue`); every slot of the semaphore belongs to a connection
(`SlotsMatch`); what is served is where `Stop` finds it, and where the switch
does unless it was tracked after the switch (`NoneEscapes`); after restarts,
crashes and edits a honeypot is as last chosen while the file has not changed
(`ChoiceSurvives`); and `Stop` returns (`StopReturns`).

The run whose property the code violates (`PROJECT.json` "findings"):

| Run | What happens |
|---|---|
| `ports_undo_fault` | The undo of an unconfirmed restriction fails once; the restriction is put back in force and no timer remains. |

### Further configurations

Beside the runs there is a configuration for each place where the code does
something else than a comment or a document says, or than one might expect. TLC finds
the property named violated; each shows why a property of the runs carries the
exception that it does. Of the properties in a `..._doubts.cfg` one is
checked at a time; the others are commented out.

| Configuration | Property | What happens |
|---|---|---|
| `ban_orphan` | `RuleBacked` | An unban between the two halves of a ban (`server.go:721-723`): the row is deleted, then the rule inserted. No failure is needed; the address stays blocked and no screen shows it. |
| `ban_downgrade` | `PermanentKept` | `maybeAutoBan` (`server.go:685`) finds no ban, an operator bans for ever, the automatic ban replaces the row by a temporary one; `USAGE.md:919` says a ban without duration stays. |
| `ports_wipe` | `RulesHealed` | After `iptables -F` the chains exist and are empty; `Ensure` (`firewall/ports.go:418`) takes them for intact (`README.md:538-540`). |
| `update_older` | `NewestWins` | The installed binary is upgraded while a failing update uses up its starts (`update/state.go:135`); the fallback is older than the installed binary and is started all the same (`README.md:251-252`). |
| `console_bookmark` | `EngineBookmarked` | A page opened on `#containers?engine=incus&view=table` (`USAGE.md:790-792`) writes its hash before it knows the engines and drops the engine (`app.js:1872`); what is bookmarked then opens another one. |
| `console_unloaded` | `OnlyTouched` | Saving the auto-ban form before its load was answered writes what the empty form says (`app.js:970-977`). |
| `desk_map_doubts` | `RefreshesElsewhere` | A cable left hanging on the map holds back the interval on every other screen (`app.js:2122-2123`). |
| `desk_map_doubts` | `DragRemembered` | A device that is off the map when another one is saved loses the place it was dragged to (`topology.js:6`). |
| `desk_sheet_doubts` | `ActsOnTitle` | Between the click and the answer the sheet shows the former title while its buttons act on the new container (`app.js:1529-1542,1810`). |
| `desk_sheet_doubts` | `PlanSeenFirst` | A port can be closed before the preview of the last choice has come (`app.js:463`; `README.md:656-657`). |
| `panels_doubts` | `ClearedEverywhere` | A search cleared while another engine is shown stays on the first engine's map (`app.js:1324/2093`). |
| `panels_doubts` | `StripIsTheDay` | The strip of a service has an hour more or less than the 24 the figure beside it counts (`app.js:361-363`, `handlers.go:498-530`). |
| `panels_doubts` | `VerdictAlways` | In the middle of a scan the headline may say "none known" of places not yet compared (`app.js:754-763`). |
| `panels_doubts` | `PresentKept` | A container loses its result when its engine could not be listed (`inventory/manager.go:256-290`, `containers/scaninfo.go:33-37`). |
| `panels_doubts` | `OffIsSilent` | A connection accepted just before its honeypot is switched off is tracked after it and served (`services.go:117-128`, `server.go:485`); only its own end or `Stop` closes it. |
| `panels_doubts` | `OutlineAlways` | A pinch that begins in a drag leaves the outline where it was until the next redraw (`topology.js:365/388-397`). |

Deadlock is checked in the runs of `BanLifecycle` and `PortRules`. A server
that runs the newest version with nothing asked of it (`UpdateState`) and a page
whose operator has used up the clicks of the bound have no step left.

### Fairness

- `BanLifecycle!FairSpec`: weak fairness of the maintenance goroutine's next
  step. It runs in its own loop with a ticker until the process stops
  (`maintenanceLoop`), and every one of its calls has a timeout. Handlers and
  operators are not fair.
- `PortRules!FairSpec`: timers fire; who waits for `Manager.mu` gets it (Go's
  mutex has a starvation mode, hence strong fairness of `Expire` and
  `Maintain`); who holds it goes on. No request is fair.
- `UpdateState!FairSpec`: the service manager starts the service
  (`Restart=on-failure`, Docker's restart policy), a version that cannot stay
  up does not, a requested restart happens. Nothing else.
- `Console!FairSpec`: a request is answered or fails (the browser ends it in
  the end), what was awaited is rendered, intervals and timeouts fire, a scan
  ends; a poll of `followUpdate` is answered or fails and its own deadline
  comes. The process that is being updated need not come back, and no click
  is fair.
- `RuleEditor!FairSpec`: what a page waits for comes or fails, its countdown
  runs, the server's timer fires, time passes. No click is fair.

- `Panels!FairSpec`: in the server some goroutine that can go on does (an accept
  loop with a connection in hand or a closed listener, a handler whose connection
  is closed, one that has returned, `Stop` once all are gone: the Go scheduler
  starves none, and a read or write of a closed connection fails); a `Start` that
  gave up is followed by `Stop` (`main.go:150-155`). A handler of an open
  connection need not return, no request is fair, and nothing of the pages is.

## 4. Proofs

For every number of addresses, connections, requests, devices, upsets and every
clock. In the daemon:

- `TypeCorrect` (`BanLifecycle_proofs`): `TypeOK` is inductive once it is split
  into `ProcOK` (labels and local variables) and `DataOK` (tables, kernel).
- `WhitelistSafe`: `TargetsNotWhitelisted`. Not inductive alone: the
  maintenance goroutine shares `UnbanIP` with operators, so the invariant adds
  that whom it unbans is whitelisted (`JanitorUnbansWhitelisted`).
- `WhitelistedNeverBanned` (`NeverBanWhitelisted`) and `RenewedBanKept`
  (`RenewedRowKept`): action properties, from that invariant and a case split
  over the actions that write `row` or `rules`.
- `PortsTypeCorrect` (`PortRules_proofs`): `TypeOK`, with that at most one
  goroutine is past the lock. `TypeInv` adds that a change which still has to
  be judged finds an unused trial (`TrialLeft`) and that a request to follow
  names an address.
- `StoredOnTrial` (`StoredWasOnTrial`): the Manager knows the stored rules or
  none (`SavedKnown`), and what is no new risk against none is none against
  any (`RiskIsNew`), so that a harmless-looking change against a lost copy
  stores no restriction.
- `TrialEndsByTimer` (`EndedByOwnTimer`), from `TrialInv`: a trial runs for
  rules in force that are not the saved ones, whoever undoes one has ended it,
  and nothing runs before `Start`. Hence a goroutine that fires late finds
  another trial's number and leaves.
- `SettledWhenFaultless` (`SettledIsStored`), assuming no failing call in the
  budget: `SettledInv` says that saved is stored, that undoing aims at the saved
  rules, that no goroutine is in the restoring branch, and that a free lock
  without a trial means active is saved; a restart keeps all of it.
- `LockoutIsTimed` (`LockoutHasTimer`), assuming besides that rules are stored
  and none of the choices removes them: `LockInv` says that the running trial's
  timer was not stopped, that the firewall holds the active rules or none, and
  that there are rules stored, in force and asked for. Without the first
  assumption `ports_undo_fault` is the counterexample; without the second a
  restart with nothing stored leaves the firewall as it is.
- `ChangesAreConfirmed` (`KeepsConfirmed`), assuming no failing call: `PortRules`
  implements `ConfirmedChange`. Every step is a `Put`, `Keep`, `Try`, `Confirm`,
  `Return` or a stutter of the abstract change, by `TypeInv`, `TrialInv` and
  `SettledInv`: only the holder of the lock shows (`HolderShown`), what it shows
  is settled unless a trial runs (`HeldShows`, `FreeShows`), and who keeps rules
  keeps those in force (`SetFinishShown`, `OperatorShown`).
- `KernelKnownActive` (`KernelIsActive`), assuming at most one failing call of the
  firewall: `KernelInv` says that whoever is putting back what was refused has
  used up the one failure, and that otherwise the firewall holds the active
  rules as soon as there are any, on every family that was not flushed. With a
  second failure the restoration may fail too, and the property is false.
- `RulesHaveRows` (`RuleBacked`), assuming `Prompt`, no operator who unbans
  (`ban_orphan` is the counterexample with one) and either an empty whitelist
  or a firewall that does not fail and a process that does not die: a
  whitelisted ban is lifted by the sync row first, so a failure after the row
  leaves the rule. `BackedInv` adds that only the maintenance goroutine lifts
  (`OnlyJanitorLifts`), that whoever is about to put a rule in does so for a
  ban in force (`RowInForce`), that the sync's list is of stored bans
  (`SyncListed`), and that an expired ban about to be deleted has no rule any more
  unless it was renewed (`LiftedFirst`).
- `FirstSyncRestores` (`BootRestoresBans`), for a finite number of addresses: until
  the first sync is done nobody else works (`BootAlone`), the chains stand as
  long as nobody flushes them (`ChainsStand`), and the bans it has passed by
  without a rule are no more than the failures spent (`LeftCounted`, with the
  library's facts on cardinality).
- `ServicesHold` (`ServicesTrue`, `Services_proofs`): from `Inv`, which adds that
  a connection in an accept loop's hand is in no other and marked so (`Hands`),
  that without a process there is none (`NoneLeft`), that a service's list has
  only its own connections (`OwnListed`), that a listener has its own accept loop
  and port whatever the phase (`OwnLoops`), and that the row of a service is about
  the file as last read (`ChoiceKept`). Slots are counted with the library's facts
  on cardinality: a slot is taken for a connection that had none and given back
  by one that had.
- `UpdateTypeCorrect`, `FallbackIsGood`, `OnlyGoodIsMarked`
  (`UpdateState_proofs`), from one invariant, `UpdateInv`: since three
  goroutines each hold a copy of the state that they will save over the file,
  what is wanted of the file (`StateOK`) is said of all four copies, and the
  marking goroutine carries from its load to its save that its copy names the
  version it runs (`MarkOK`).

In the dashboard:

- `PreviewIsLatest` (`ShowsLatest`, `Desk_proofs`): the close dialog implements
  `LatestPlan`. The invariant `PlanInv`: no question out is newer than the one
  of this moment, and one with its number asks the same. Every step is then an
  `Ask`, a `Show` or a stutter of the abstract dialog.
- `ConfirmedAsNamed` (`ConfirmedIsSent`): the open question carries the job it
  will send, for what it names (`Named`).
- `SheetIsConsistent`: facts and limits of the sheet are those of its title and
  of what its buttons act on (`SheetInv`).
- `SheetsAlwaysHold` (`SheetsHold`), from `SheetsInv`: a confirmation lies on top
  and has its question (`ConfirmOnTop`), an open form has its subject
  (`FormsFilled`, both from `TopInv`), facts are of the title and limits of the
  container (`SheetInv`), a form's button is off while its request is out
  (`OffWhileSent`, from `SentInv`; hence `OneSubmit`). Besides, the question is one
  that some sheet asks (`AskingInv`), and answers about addresses go to addresses
  (`CallsInv`).
- `DevicesStay` (`StaysPut`): every redraw goes through `RenderMap`, which takes
  the places over; each gesture is a case.
- `MapAlwaysHolds` (`MapHolds`), from `MapInv`: listings are ones an engine can
  give (`WorldInv`), what is drawn has a place (`PlacesInv`), a gesture is under
  way only with a pointer down and a dragged device is pinned where the
  pointer left it, unless an answer has redrawn the map since (`GestureInv`), a
  moved device is in the browser's storage at that place, and pinned if it is drawn
  (`KeptInv`), a cable hangs from an open device and aims at what it may
  plug into (`CableInv`), dialogs and requests are about open devices only
  (`DialogInv`, `JobsInv`). Folding replicas loses no container (`NoneLost`). Of
  this, `MapHolds` states that what is drawn has a place, no membership is lost,
  the card is current, requests are about open devices, and a device stands where
  it was left; `loose` and `forgotten` name those excepted from the last.
- `BookmarkIsView` (`Console_proofs`): `HashIsView`, one part of `ScreensTrue`.
  `ViewInv` adds that the choices are ones `applyParams` accepts; then what
  `writeHash` writes reads back as it was (`WrittenIsRead`).
- `PillsAgree`: `PillsMatchBans`, another part. Loads are of screens that exist
  (`LoadInv`), and only a load of the attackers screen fills either part.
- `ScreensHold` (`ScreensTrue`): the rest, from both.
- `SettingsHold` (`SettingsTrue`), from `SettingsInv`: what each block shows is what
  its last answer said, and an answer still out says what the server has by now or
  is one of those that the property excepts (`SeenInv`, `SaidInv`); every poll
  of the update panel has its place in the bound (`RoomInv`, by cardinality);
  the versions and tokens that a poll compares were those of a process that
  ran (`FollowInv`), so that no verdict is about one that was not restarted
  (`VerdictTrue`).
- `SwitchesHold` (`SwitchesHonest`, part of `PortsTrue`; `Panels_proofs`), from `SwitchesInv`: a switch
  waits for one request at most (`OneWaits`) and stands where that one was meant
  to put it (`AsClicked`), a refusal would put it back to what was last
  acknowledged (`WouldReturn`), and a switch that waits for nothing stands
  there (`SwitchAtRest`).
- `PortsHold` (`PortsTrue`): the column and the headline are worked out from the
  page's `rulesFor` in the order of its sort (`Precedes`), the kernel's verdict
  from the compiled chains. `MatchApplies`: what matches a packet on an address
  the port is open on is a rule the page found; `FirstExists` and `FirstDecides`:
  among those the least in the page's order exists and is the one whose verdict
  the chains give. `CoveringAppend` says what a loop over the list keeps, by
  induction over its length; hence a rule at the end that covers a port puts it
  on trial, and one that does not leaves the port as it was (`CoveringGrows`), so
  that the first protected port in a draft's range is among those on trial if
  any is (`WarningTrue`). `BansTrue` is by cases over method, hooks and address. So these
  claims hold of every list of rules, and a list only comes with an answer
  (`ClaimsOfAnswer`).
- `SoftwareHolds` (`SoftwareTrue`): a scan has read anew what it need not read any
  more (`ReadAnew`), a check is about all places there are (`ListedAre`), so
  after a whole run everything was compared or nothing (`AlikeWhenWhole`);
  what is stored is what is in memory except where a write failed
  (`KeptAlways`); reads left behind are bounded (`StuckFew`); and what an answer
  says was sound when it was given (`GoodViews`, `GoodCalls`).
- `ContainersHold` (`ContainersTrue`): the rows, the map's search, the help text and
  the cables are those of the answer, engine, search and filter in force
  (`RowsNow`, `MapNow`, `HelpNow`, `CablesNow`).
- `FiguresHold` (`FiguresTypeOK` and `FiguresTrue`, that is `OverviewTrue`), for a
  finite number of sources: from the type of the log alone, since the figures are
  functions of it. `SumByClass` says that a sum may be made class by class,
  whatever order the library's fold takes (`SumAny`); then bars and flow
  are the connections by hour and by outcome (`CountByClass`). The sources listed are
  a part of all (`SumPart`), each once (`SumListed`), and all of those with
  connections unless the list is full (`RowsAdd`); the first is the busiest
  whichever list was sent (`BusiestExists`, `SourcesHold`), and some list can be
  (`SomeListIsSent`). The
  cells of the week are its bars by day and hour, of which those still to come
  are empty (`GridIs`). Window, days and labels are arithmetic of whole parts and
  rests (`DaysAre`, `SameTime`); median and scale are the value at an index
  (`NthIs`).
- `MapViewHolds` (`MapViewTypeOK` and `MapReads`, that is `MapTrue`), for any
  finite number of devices and cables, any layouts and any number of gestures.
  `MapInv` adds to it that the view consists of fractions in lowest terms
  (`ViewOK`) and `Calm`: unless a device is held or two fingers ended a drag,
  outlines are drawn of what is there, and once the frame has come labels are
  right (`LabelsOK`). Four arguments carry it. *The view*: a fraction that equals
  n/d is one only (`WorthIsOne`, from the divisors of `gcd`), so that equal terms
  of the view are equal fractions, and zoom, centring and minimap end where they
  should (`ZoomedIs`, `CentredIs`, `MiniIs`). *Sorting*: `Sorts` shows that
  `InOrder` lists a finite set by any strict total order. *Labels*: `PlacedStep`
  is the loop of `cull`. *Outlines*: `ChainStep` is the loop of `hull`, with
  `ChainOK` as its invariant: the chain turns left, and every point it has seen
  is left of each of its edges. What a pop keeps is `CrossBefore` and
  `CrossBeyond`; where lower and upper half meet, a straight joint would put all
  points on one line (`CrossFlat`, `HalvesMeet`). `HullIs` puts the halves together
  for any points, with repeated and collinear ones.
- `TimesAlwaysTold` and `VersionsAlwaysAgree`: `TimesTold` and `VersionsOrdered` of
  `Readings` for every time and every version. A rounded time lies within half of
  its unit and never leaves the range of that unit (`RoundedIs`, `AgoNear`), so that it
  never goes back where the unit changes either. `CompareVersions` is the order
  `Newer` (`CompareIs`), which is transitive since the earlier of two first
  differences decides (`LaterOn`), and what the page calls newer by its numbers is
  newer in that order (`PageIs`). Identifiers are ranks: three versions compare only
  finitely many, in the order of numbers, then words. Numbers with leading zeros,
  which semver forbids and `comparePre` orders by position, are left out.
- `EditorTypeCorrect` (`TypeOK` of `RuleEditor`, `RuleEditor_proofs`) from `PageInv`:
  one rule has an id in every list, on the server, on a page, in a request and in an
  answer under way.
- `EditsAreLocal` (`EditIsLocal`), from `PageInv` and what the helpers on lists
  compute: taking a rule out of a list leaves the parts before and after it
  (`WithoutPlace`), putting one back at the same index is an `EXCEPT` there
  (`SplicedIs`), lists that differ only in rules of one id are the same without
  them (`WithoutAlike`).

These last facts are about a recursive function on lists of any length. The
library's induction theorems take an operator and cannot be instantiated here;
`LeastIs`, `Induction` and `ListInduction` state induction over a set instead,
from `WFMin` and `NatLessThanWellFounded`, whose arguments are sets, and `Repeats`
gives the function that a definition builds step by step, for the chain of `hull`
and the loop of `cull`.

The components of `Panels` share no state. `PanelsImplement` proves that its
`Spec` implies `AccessSpec`, `BaySpec`, `FiguresSpec`, `InventorySpec`,
`MapViewSpec` and `ServicesSpec`, and `PanelsHold` that all of `PortsTrue`,
`ContainersTrue`, `OverviewTrue`, `SoftwareTrue`, `MapTrue` (alone: `MapIsTrue`) and
`ServicesTrue` hold of the composition that the run `panels` checks. For this no module that `Panels` extends declares a recursive operator:
loops are recursive functions (`Access!Covering`, `MapView!gcd`) or folds, and
`Charts`, which solves its equations by recursion, is extended by `MCPanels` alone.

The assumptions are the named `ASSUME`s of the modules, which TLC evaluates in
the runs, and those stated in the theorems above. Most say what a value of the
bounds is; these are about the data and are what the code gives: a question is no
blank (`NoneAssumption` of `Sheets`, `Settings` and others: `null` is none of the
values); a container's networks are networks of the engine (`ServersAssumption`);
the first rules have different ids (`FirstRulesAssumption`; `Manager.apply`
refuses others); a network contains addresses of its own family only, and a
listener named with an address is on one that is forwarded to a container or an
instance, "" standing for the host's own (`AccessAssumption`; the comment at
`portrules/listeners.go:27`).

Only model-checked:

- the update card's button, the ticks, and what `Charts` computes, as assumptions
  TLC evaluates.
- every liveness property (`ExpiredBanReleased`, `BanHealed`, `LockoutEnds`,
  `RulesHealed`, `ServiceReturns`, `LiveCatchesUp`, `FollowEnds`,
  `TrialLeavesPage`, `StopReturns`), which needs fairness and `ENABLED`, beyond tlapm.

## 5. Plan

Next, in this order:

1. `Containers`: the manager's jobs and its undo of a failed move.
2. `BanRegistry`, an abstract specification of bans (banned until, lifted,
   renewed), implemented by `BanLifecycle` in the world of `RulesHaveRows`, with
   the refinement proved from `BackedInv`.
3. `Analysis`: rate limiter and detector as functions of the history, against
   a reference definition without clean-up.
4. The statements of `persist` and `LoadSettings` one by one, with crashes and
   edited files.
5. The Honeypots page's own requests over `Services`; a dashboard that cannot
   start after the listeners have.
6. The login throttle, stealth rules and MCP confirmation.

## 6. Not modelled

The rate limiter and detector, the container manager's jobs, the
settings rows and the login throttle are planned (section 5). The rest is
input/output or text processing without shared state of its own: protocol
dialogues of the honeypots, HTTP and cryptography of updates, package parsers,
the engines' HTTP APIs, `/proc`, the log and its queries, the configuration
file, the installer. Of the browser code, drawing (SVG, layout and the force
simulation, tooltips, tables), wording and most of `charts.js` are left out.
`.agents/skills` holds scripts and assets of an authoring tool that is no part
of the program. `PROJECT.json` "components" lists each with its reason.

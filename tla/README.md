# Certifi in TLA+

Certifi is a certificate manager: an HTTP server (Rust, axum, sqlx on SQLite)
that gets certificates from an ACME CA over DNS-01 challenges, keeps them and
their keys, renews them, and hands them to people, to API clients and to a
command line tool. This directory holds TLA+ modules that model the parts of it
where order, interleaving and failure matter, the TLC configurations that
check them on small instances, and proofs of the properties that matter most,
for instances of any size.

Sources are named relative to `src/crates/certifi-server/src/` unless they
start with `docs/` or `crates/`.

    tlasany M.tla                          parse
    tlc -workers 2 -config X.cfg M         check (runs are listed below)
    tlapm M.tla                            prove

## 1. The system

| Component | State | Operations | Talks to |
|---|---|---|---|
| Certificate rows and issuance: `handlers/certificates.rs`, `services/renewal.rs` | table `certificates`: status, names, auto_renew, key_algo, PEMs or `secret_ref`, expires_at | create, renew, delete, edit, download; `run_issuance` in detached tasks; the daily sweep | ACME order, secret store, mail, live events |
| Secret store: `services/secret_store.rs` | PEM columns and `pfx_password_enc`; secrets in OpenBao | store an issued certificate, load, PFX password, delete, boot migration | SQLite, OpenBao client |
| OpenBao client: `services/openbao.rs` | a cached token behind a lock | login, renew, read, write, destroy, one retry after a 403 | OpenBao |
| ACME account: `services/renewal.rs`, `handlers/settings.rs` | settings `acme_account_key`, `acme_account_url` | register, register on first issuance | CA |
| ACME order: `services/acme.rs`, `integrations/` | none of its own; TXT records at the DNS provider | order, deploy challenges, notify, poll, clean up, finalize | CA, DNS providers, propagation check |
| DNS propagation check: `services/dns_check.rs` | none | wait until every authoritative server shows the values, or the deadline | resolvers |
| Access control: `rbac.rs`, `handlers/{roles,users,oidc}.rs`, `auth.rs` | users (with a legacy `is_admin` column), role_assignments, identities | grant, revoke, toggle admin, OIDC group synchronisation, boot reconciliation | every handler |
| Sign-in: `handlers/{auth,totp,tokens,oidc}.rs`, `services/{totp,sessions}.rs`, `auth.rs` | sessions, api_tokens, user_totp, login_challenges, oidc_states | password and TOTP steps, OIDC start and callback, enrol, confirm, disable, tokens, logout | every handler, the OIDC provider |
| Provisioning: `services/provisioning.rs` | a sentinel setting | apply a YAML file on first boot | settings, users, integrations |
| Integrations and settings: `handlers/{integrations,settings}.rs`, `config.rs` | tables `integrations`, `settings` | create, update, delete, test | secret store |
| CLI: `crates/certifi-client` | files on the client's disk | request, wait, write files if changed, run the reload command | HTTP API |
| Outputs: `audit.rs`, `services/email.rs`, `events.rs` | audit table, a broadcast channel | append, send | nothing reads them back |
| Web interface, scripts, packaging | - | - | HTTP API |

What the parts share is the database. No handler opens a transaction: each SQL
statement is atomic, and everything between two statements of a handler can be
interleaved with any other handler, with detached issuance tasks and with the
scheduler, or cut off by a crash. That is the atomicity the models take: one
action per statement, or per answer of an external service.

### Where it is hard, and what should hold

* **Rows.** Several issuances may want one row; the lock is one guarded UPDATE
  in the renew handler, which the sweep and the re-POST do not use. Properties:
  one issuer per row, rows describe the certificate they serve, no active row
  without its key, no row in flight that nobody works on, one mail per outage,
  deletion is final, rows settle, due rows are renewed, failed rows retried.
* **Key material.** OpenBao is written without check-and-set, from what was
  read before; deletes, renewals, downloads and the boot migration overlap or
  are cut short. Properties: pointers resolve, nothing is lost, nothing is left
  in the database, the newest certificate is served, the PFX password is kept.
* **ACME account.** Key and URL are written separately, by a handler and by the
  first issuance. Property: the pair in use belongs together.
* **Integrations and provisioning.** Credentials are read, merged and written back;
  the file of the first boot is applied in several writes. Properties: masked
  credentials survive, the file is applied in full.
* **ACME orders.** Orders that share a challenge name share an RRset; a name may be
  routed to the wrong zone; an order has many ways out. Properties: an order's own
  steps never fail an authorization, records are left behind for known causes only,
  every order ends.
* **DNS.** Servers are lame, slow, silent or unreachable. Properties: the walk
  returns and ends at the right zone, success and failure of the wait mean what they
  say, the wait ends in time.
* **OpenBao token.** Tasks refresh one token side by side. Properties: no token
  lapses under a request, a request takes effect once, retries are bounded.
* **Access.** Two representations of "is an administrator" and four writers.
  Properties: toggles lock nobody out, the boot repairs what an interruption left,
  sign-ins leave what they entitle to and nothing more, grants made by hand survive
  them, a deleted user holds nothing.
* **Sign-in.** Challenges and states are read, then deleted; enrolment races
  confirmation; users are deleted under their requests. Properties: no lock-out, one
  session per ticket, the second factor is asked for, nothing outlives its user.
* **CLI.** Files are written one by one while the server renews. Properties: an
  undisturbed run delivers one issuance, later runs repair torn ones.

`PROJECT.json` lists every component and every hazard with its line.

## 2. The modules

| Module | What | Checked by | Proofs |
|---|---|---|---|
| `CertLifecycle` | rows, issuances, scheduler, faults | `lifecycle_faults`, `lifecycle_liveness`, `lifecycle_double_issue` | `CertLifecycleProofs` |
| `RowClaim` | abstract: a row as a lock with one holder | as a property of `CertLifecycle` | the refinement, in `CertLifecycleProofs` |
| `SecretStore` | key material, OpenBao, boot migration | `secrets` | `SecretStoreProofs` |
| `Configuration` | integrations, provisioning, ACME account | `config` | `SecretStoreProofs` |
| `AcmeOrder` | orders, routing to zones, RRsets, cleanup, polls | `order` | `AcmeOrderProofs` |
| `Delegation` | the walk to the authoritative servers | `delegation` | `DnsCheckProofs` |
| `Propagation` | polling them until the deadline | `propagation` | `DnsCheckProofs` |
| `BaoToken` | the OpenBao token under concurrency, over a clock | `openbao` | `BaoTokenProofs` |
| `Access` | users, assignments, admin column, OIDC sync, boot reconciliation | `access` | `AccessProofs` |
| `SignIn` | passwords, TOTP, OIDC states, sessions, tokens | `signin` | `SignInProofs` |
| `CliRequest` | files of a client, interrupted runs | `cli` | `CliRequestProofs` |

`MC...` modules hold the instances: finite trees of zones and servers, and symmetry.

The modules meet where one abstracts what the other details. `CertLifecycle` has one
step for an issuance that succeeds or fails: `AcmeOrder` details its order,
`SecretStore` the storing of its result, `Configuration` the account and the
integrations it starts from. `AcmeOrder` has one step, `Await`, for the propagation
check that `Delegation` and `Propagation` detail; `SecretStore` and `Configuration` have
one step for a request to OpenBao, which `BaoToken` takes apart; `CliRequest` sees of the
server the row and the material that `CertLifecycle` describes. `SignIn` admits the
requests and `Access` decides what they may do. `RowClaim` is the one abstract
specification that another module is shown to implement, by TLC and by proof; the other
seams are of the kind just described, where both sides would have to be composed to say
more, and their product is beyond TLC.

Each module has its type invariant (`TypeOK`, `ConfigTypeOK`, `WalkTypeOK`), which is a
theorem and therefore in no run. A proof module is about one component or two that belong
together: `SecretStoreProofs` has `Configuration`, whose secrets the same boot moves, in its
second half, `DnsCheckProofs` both halves of the DNS check.

## 3. CertLifecycle

Columns are functions from row ids: `status`, `cn` (a member of `Names` stands
for a normalised pair of common name and SAN set, which is what the look-ups
compare), `auto_renew`, `key_algo`, `material` (which issued certificate the PEM
columns hold), `expires_at` (the certificate whose expiry is recorded). Rows
come into being once and deleted ids are not reused, as UUIDs are not.

A process is an HTTP request `r \in Reqs` or the scheduler. `pc`, `row`, `algo`,
`cert` and `want` are the local variables it carries between statements, and are
as stale as they are in the code. A request that spawns its issuance stands for
the detached task from then on.

| Action | Code |
|---|---|
| `CreateBegin`, `CreateInFlight`, `CreateFailed`, `CreateRetry`, `CreateInsert` | `create`: three look-ups, then an UPDATE of the failed row or an INSERT. The UPDATE has no condition on the status |
| `RenewFetch`, `RenewClaim`, `RenewConflict` | `renew`: read, then the UPDATE guarded by `status NOT IN (...)` |
| `Spawn`, `DropHandler` | the audit write between claim and spawn, at which axum may drop the handler's future |
| `Delete`, `UpdateAutoRenew` | the handlers of that name |
| `StartIssuing`, `Issued`, `StoreIssuedCert`, `Activate`, `StepFails`, `MarkFailed` | `run_issuance` and its callers' error branches |
| `SweepDue`, `SweepRetry`, `RenewCert`, `SweepEnd` | `check_renewals`: two passes, each over a snapshot, rows one after the other |
| `MarkFailedLost`, `RenewCertUnmarked`, `SweepAborts`, `Crash` | UPDATEs whose error is ignored, a failing query, a stop of the server |
| `Age` | time: a certificate comes within 30 days of its expiry |

`propagating` is a status the schema names and no code writes; it is left out of
`Statuses`. `unclaimed` collects the rows on which an issuance was started while
another was at work, by the two UPDATEs that do not look. The properties that
cannot survive this exclude those rows, and `ActiveIsServable`,
`InFlightHasIssuer` and `DeletionIsFinal` hold for them too.

**Runs.**

| Run | Bounds | Shows |
|---|---|---|
| `lifecycle_faults` | 1 row, 1 name, 2 requests and the scheduler, 2 issues, 1 fault | five invariants, an action property, the refinement of `RowClaim` |
| `lifecycle_liveness` | 1 request, 2 issues, 1 fault, under `FairSpec` | rows settle, are renewed, are retried |
| `lifecycle_double_issue` | 2 rows of one name, POSTs only, no fault | counterexample to "never double-issue" |

Three processes on one row give every pair of a claim, an unguarded UPDATE and a
deletion, which is where the properties can break; two issues let a renewal
follow a first issuance; one fault is any single crash, dropped handler or lost
write anywhere. Rows interact only through names (`lifecycle_double_issue` has
two) and through the sweep, which takes them one at a time.

**Fairness.** `FairSpec` asks weak fairness of each begun handler and task and of
the scheduler. Every await in them returns: statements do, HTTP clients have
timeouts (acme.rs 30 s, providers 15 s, OpenBao 20 s), the two ACME polls give up
after 120 s; the runtime then polls the task. Nothing is asked of clients or of
time. No fairness is asked for success: an issuance may fail every time, and the
liveness properties allow for it: a due row is *taken up*, a failed one *tried*.
MaxIssues does not cut these properties short, since an issuance that may not
issue can still fail.

**Proofs** (`CertLifecycleProofs`). None of the properties is inductive: each
speaks of the table, and the next write to the table depends on what a process
remembers. `IInv` relates the two in layers, each inductive given those before
it: `Remembers` (a process past its first read knows a row, an algorithm, a
certificate), `KnownRowsExist`, `StatusFollowsOwner` with `SingleIssuer` (the
status of a row is the one its owner's phase implies, so a second owner finds
the guard closed), `RowFollowsOwner`, `StoredBeforeActive`, `AlertsPending` (no
mail has gone out for a row the due pass has yet to try). Each `...Step` lemma
has one step per action. Proved for all values of the constants under
`CertLifecycleAssumption`: all properties of `lifecycle_faults`, and `StatusPipeline` (an
issuance alone on its row moves it along the documented pipeline only). Model-checked
only: the liveness properties.

**The refinement** (`RowClaim`, property `StatusIsALock`). The mapping reads a row's state
off the table and the processes: `held` when one of them owns it, `settled` when it is
active or has failed, `stranded` when it is in flight and nobody owns it, `contested` once
an issuance was started on it past another. Requests, sweep, deletions and crashes are then
steps of `RowClaim` or none. `Contest` and `Strand` are in the abstract specification
because the code has them; what is left is that the lock has one holder, that only its
holder settles a row, and that a deleted row stays deleted.

## 4. SecretStore

A row's columns are `db[c]`: `mat`, the number of the certificate in the four PEM
columns; `pw`, the password under `pfx_password_enc`, or `Undecryptable`; `ref`,
whether `secret_ref` is set. `kv[c]` is the secret at `certificates/<id>`. Numbers
count per row, in the order in which certificates and passwords come into being.
A worker is a task or a handler between two statements: `snap` is the row as
fetched, `data` the secret as read, `new` what it brings.

| Action | Code |
|---|---|
| `Issue`, `StoreColumns`, `StoreRead`, `StoreReadFails`, `StoreWrite`, `StoreRef` | `store_issued_cert`, both backends; a failed read goes on with an empty secret |
| `PfxFetch`, `PfxShow`, `PfxMint`, `PfxRead`, `PfxWrite`, `PfxUpdate` | `download_pfx`, `rotate_pfx_password`, `store_pfx_password` |
| `DeleteFetch`, `DeleteRow`, `DeleteNotFound`, `DeleteSecret` | `delete`, `delete_cert_material` by the reference of the row as fetched |
| `GivesUp` | any error or dropped future in between |
| `Stop`, `BootDatabase`, `BootOpenBao` | a stop anywhere, also in the middle of the migration, and `main` with `BAO_ADDR` unset or set |
| `MigrateWrite`, `MigrateClear`, `MigrateDone` | `migrate_from_database`: write; read back, compare, clear; scrub if this run moved something |
| `RotateCookieKey` | the operator changes `COOKIE_KEY` while the server is down |

A failure of the migration is fatal in `main`, so it is a `Stop`. `MayGoBack`
says whether the operator ever unsets `BAO_ADDR` again. `raced` collects the rows
on which a write to OpenBao replaced something its worker had not read (nothing
in the code prevents it), `forgotten` those whose password could not be read or
decrypted: the code says of both cases of `forgotten` that a new password is the
right recovery. The two properties that cannot hold then exclude these rows;
`RefResolves`, `SweptBeforeServing` and `NothingIsLost` hold for all.

**Runs.**

| Run | Bounds | Shows |
|---|---|---|
| `secrets` | 1 row, 3 workers, 3 certificates, 3 passwords, any number of stops, boots and rotations | four invariants, one action property |

Three workers let a renewal, a download and a deletion meet on one row, or two
downloads and a renewal; three certificates and passwords leave room for a write
that puts an older one back after two newer. Rows do not interact, except that
the migration takes them one by one; the theorems cover any number of rows.
Deadlock cannot occur, since the server can always be stopped and booted.

**Proofs** (`SecretStoreProofs`). What a worker writes depends on what it read
steps before, so the layers say what each phase knows. `WorkersKnow` and
`BootKnows`: a worker at rest in a stopped server, a worker that writes to OpenBao
only on that backend, rows wait for the migration only while it runs.
`PointersHold`: whoever is about to set a pointer has written the secret, and
whoever writes a secret back has read a complete one. `SweepHolds`: every row
still in columns is selected, and no worker of a server on OpenBao writes
columns. `LatestHolds` and `PasswordHolds`: an unraced worker's copy is what is
stored. Proved for all values of the constants: all properties of the `secrets`
run; `RefResolves` and `NothingIsLost` also for servers that go back and forth,
the other three assuming `~MayGoBack`.

## 5. Access

`life[u]` is a user row, `is_admin[u]` its legacy column, `assigned[<<u, g>>]` the
source of the assignment of grant `g` (a role and a scope) to `u`, or `"none"`:
the table has one row per pair, by its UNIQUE constraint. `linked[s]` is the user
an OIDC subject signs in as, `mappings` the table that gives groups roles. A
request keeps `actor`, `user`, `subject`, `groups`, and of a synchronisation
`desired`, `held` (the ids of the rows it has read) and `missing`. A row id is not
used again, so whoever deletes a row also takes it out of every `held`: a later
DELETE by that id finds nothing, even if a new row has the same place.

| Action | Code |
|---|---|
| `Begin`, `Refuse` | the extractor, which reads the actor's grants once, and the early returns |
| `InsertUser`, `UpdateFlag`, `GrantSuper`, `DropSuper`, `GrantOperator` | `users::create`, `users::update`, `set_user_admin_status`: the column, then the assignments one statement at a time |
| `DeleteUser` | `users::delete`, with what ON DELETE CASCADE takes along |
| `AssignRole`, `RevokeRead`, `RevokeCount`, `RevokeDelete` | `create_assignment`; `revoke_assignment`: read, count the SuperAdmin assignments, delete |
| `CreateMapping`, `DeleteMapping` | the group mapping handlers |
| `SignIn`, `InsertJit`, `InsertIdentity` | the callback from the verified ID token on, and `jit_provision_user` |
| `ReadMappings`, `ReadCurrent`, `SyncDelete`, `SyncInsert`, `SyncFlag` | `sync_oidc_role_assignments`; the order of deletions and of insertions is left open |
| `EnsureAdmin`, `ListUsers`, `Reconcile`, `Serve` | `main`: `ensure_admin`, `migrate_existing_users` |
| `Abort`, `Crash` | a statement fails or the client goes away; the server stops anywhere, also while booting |

`Managers` are the roles whose permissions let their holder send these requests;
that a permission check looks at global grants only is kept. Three variables only
observe. `begun` bounds the requests. `thinned` collects users who, since the
boot, were created without a role or lost one to something other than a completed
toggle: a revocation, a sign-in, or a toggle cut off in the middle. `earned[u]` is
what the groups of `u` entitled to at the last sign-in, united with what sign-ins
overlapping it were entitled to; after a sign-in that was cut off it is everything,
since such a sign-in promises nothing.

**Runs.**

| Run | Bounds | Shows |
|---|---|---|
| `access` | 3 users, 1 subject, 1 group, 2 roles, 1 scope, 2 requests at a time, 5 in all, any number of crashes and boots | three invariants, one action property |

The default administrator and two more users let two first sign-ins of one subject
race for its identity; two requests at a time give every pair of statements of two
handlers; five requests are enough to create a user, map a group, sign in, change
the mapping and sign in again. The theorems cover any number of each, and any
roles and scopes. Users and requests are symmetric. Deadlock cannot occur, since
the server can always crash and boot.

What the boot promises is what the code says and no more: it gives SuperAdmin back
to a user whose column is set although the assignment was revoked, because
`revoke_assignment` leaves the column alone. `BootHeals` states that behaviour.

**Proofs** (`AccessProofs`). `RequestsKnow` says what a request past a statement
knows of its user. `TableSound` joins `OnlyPresentHold` with `BootProceeds`: in the
middle of a boot, users off the list are in order already. `KeepsARole` is
inductive on top of these, with the lemmas `RoleKept` and `RoleKeptOrGranted` for
the step that ends a toggle. `HeldIsOidc` (a row a sign-in holds stays an OIDC row,
since the source of a row changes towards `oidc` only) gives `SyncSparesManual`.
`SyncPending` (a row that nobody is entitled to has a sign-in that will delete it)
gives `OnlyEarned`. Proved for all values of the constants under
`AccessAssumption`: all properties of the `access` run, and `OnlyPresentHold`.

Not modelled: creation and deletion of custom roles, permissions one by one,
permissions scoped to a zone, JIT provisioning switched off.

## 6. SignIn

`session`, `token` and `owner` name the user a row refers to; `open` has the challenges
and states that have a row; `secret` and `verified` are the table `user_totp`;
`authenticator[u]` are the secrets the user's phone holds, `old` what is past its expiry.
Ids and secrets are random, so none is drawn twice (`used`). A request is at a statement
(`pc`) with the user, the ticket and the secret it has read.

| Action | Code |
|---|---|
| `LoginCheck`, `LoginFactor`, `LoginChallenge` | `login`: the user and the password, the second factor, the challenge |
| `TotpRead`, `Spend`, `TotpVerify`, `TotpUser`, `Mint` | `login_totp`: SELECT, DELETE whose error is ignored, expiry, code, user, session |
| `OidcStart`, `CallbackRead`, `Spend`, `CallbackExchange`, `Mint` | the OIDC handlers around the exchange; what it does to users and roles is `Access` |
| `SessionLookup`, `SessionReap`, `TokenLookup` | the extractor, which admits a request and never looks again |
| `Enroll`, `ConfirmRead`, `ConfirmStamp`, `Disable` | `begin_enrollment`, `confirm_enrollment` in its two statements, `disable` |
| `CreateToken`, `RevokeToken`, `Logout`, `DeleteUser`, `Expire` | the handlers of that name; cascades; time |
| `Abandon` | a wrong code, a missing row, an error, a client that goes away |

A password is right or wrong and a code is made with a secret. Observation only: `from`,
the ticket of a session; `crossed`, users who enrolled again under a confirmation;
`shared`, tickets two requests read at once or whose DELETE was lost; `covered`.

**Run** `signin`: 1 user, 2 requests, 2 secrets, a challenge, a state, 3 sessions, a token,
5 ids in all, one of them expired. Two requests give every pair of statements of two
handlers on one user; two secrets are an enrolment and another under its confirmation;
users do not interact. Ids run out, so the run may stop. Left out: change_password, the
listing handlers, and the sweep of challenges, which the code does not have.

**Proofs** (`SignInProofs`): `RequiredIsHeld` rests on `Confirming` (a confirmation under
way has read the secret in the row, unless it was crossed); `TicketSpentOnce` on `Holders`
(a ticket nobody shares is with one request or one session, and its row gone past the
DELETE) and `Drawn`. Also proved: `FactorIsAsked` and `NothingOutlivesUser`.

## 7. AcmeOrder

`records[z][n]` are the values of the challenge of name `n` in zone `z`; a value is the
order and the authorization it is for, so a domain and its wildcard, which share a name,
have two. Domains and zones are sequences of labels. A name goes to `FirstFor`, the
oldest integration that covers it, which writes to its most specific zone, `FindZone`;
the CA is referred to the most specific zone of all, `Home`.

| Action | Code |
|---|---|
| `NewOrder`, `NewOrderFails` | newOrder and the authorizations; the CA may hold some valid |
| `DeployRoute`, `Replace`, `Clear`, `Add`, `DeployFails` | `deploy_challenge`: PowerDNS and Gandi replace the RRset, the others clean it and add one value at a time |
| `Await` | `await_dns_propagation`, best effort: the CA is told in any case |
| `Notify`, `NotifyRefused`, `NotifyFails` | the challenges one by one; a refusal cleans up, a transport error returns through `?` |
| `Poll`, `PollFails` | `poll_order_ready` until its deadline |
| `Clean`, `CleanFails`, `CleanDone` | `cleanup`: each name routed anew, failures logged |
| `Finalize`, `FinalizeFails`, `Crash` | CSR, certificate; a stop of the server |
| `Validate` | the CA (external): it looks up a value whenever it likes once told |

`Leaves` is what a clean leaves when no request fails: DigitalOcean deletes while it pages
and Hetzner reads the first page only, so a zone of several pages (`Crowded`) may keep
values. `touched`, `went`, `seen` and `kept` observe the causes the properties except:
another order wrote to the name, the name was routed past its zone or elsewhere than
before, the records were not seen everywhere, a way out has no cleanup.

**Run** `order`: an order for a domain, its wildcard and a name in a zone of its own beside
an order for the wildcard, an older integration that replaces RRsets and a younger one that
adds to them in a crowded zone, three zones one above the other, one fault anywhere, one
poll before the deadline. Two orders sharing one name give every interleaving of two
deployments and cleanups; the zones let a listing that fails send the third name past its
zone. Orders are not started again, so the run may stop. Left out: PowerDNS's fallback to
the last two labels when no zone matches; an integration whose credentials cannot be
loaded, which is as good as absent; nonces and badNonce retries, inside one request.

**Fairness**: weak, of each order's own steps (`Proceed(o) \/ Errors(o)`), since its task is
polled and every request has a timeout. Nothing is asked of the CA. Under it
`OrderEnds`: no order runs for ever.

**Proofs** (`AcmeOrderProofs`), for any orders, zones and integrations. `Held`: what an
order has published is where the CA looks, unless one of the causes has come about -
for integrations that add one value at a time, of the values already added, which the
clearing before them must not reach. `Left`: each record of an order is where the order
went and will go once more. `Places`, `Told` and `Proven` say how far an order is. That
`FirstFor`, `FindZone` and `Home` exist and enclose the name (`LeastExists`, `LongestIn`,
`Routes`, `Homes`) rests on the ordering of the naturals. `IssuedIsProven` is proved too.

## 8. Delegation and Propagation

`Delegation` walks from the root hints to the servers of the challenge name. The tree is
constant; which server answers, the order in which hosts are tried, failures and lame
referrals vary. Calls are frames of a stack: `authoritative_servers` calls
`delegation_for`, which calls `resolve_host` for a nameserver without glue, which calls
`delegation_for`, up to `MAX_DEPTH`. `Acceptable` is the guard on referrals; `Collect` leaves
out a host that cannot be resolved.

**Run** `delegation`: a zone with a glued nameserver of two addresses, one in a zone
elsewhere and one in a pair of zones that name only each other; `MaxDepth` 3 instead of 12
(the tree is three deep); two failed queries or stray referrals anywhere. Weak fairness of
the whole walk, since each query ends with its timeout. The walk is done when it returns,
so the run may stop.

**Proofs** (`DnsCheckProofs`), for any tree. The invariant `WalkInv` speaks of every call on
the stack: who may have called whom (`Chain`), that a walk stands on a zone around its name
(`WalksEnclose`), that the call on top was told something about what it asked
(`AnswersFit`), and whom the outermost call looks up (`TopHolds`). A handler goes on, returns
or calls, and `StaysFit`, `EndsFit` and `CallsFit` show once for each what that keeps, so an
action has only to say which it does. `ServersEncloseTarget` follows with no hypothesis
(`NeverSideways`). `FindsTheCut` (`CutIsFound`) needs `CutInv` beside it: as long as nothing
fails, a plain walk has come down one cut at a time, at most as many hops as its zone has
labels, to servers of its zone (`Standing`). Its three hypotheses hold of the
run's tree, which `MCDelegation` asserts, and without any one of them it is false:

* `Separate`: no server has a zone and one inside it. A server that has both answers for the
  inner one at once; there is no referral to follow, the walk stops at the outer zone
  (`dns_check.rs:391`), and nameservers only the inner one has are not polled.
* `Shallow`: no zone is deeper than `MAX_DEPTH`, or the walk stops above it.
* `BelowRoot`: every name is below a top-level domain; the root alone is no delegation.

No induction over the tree is needed: what a walk has gone through is in its zone.

`CallsNestShallow` bounds the recursion for trees in which nameservers need one another: no
more than two calls for each level from 0 to `MAX_DEPTH`, and the outermost. `delegation_for`
passes a deeper level on and `resolve_host` stops past the limit, so `Levels` gives every
call a highest place on the stack. It bounds the nesting, not the number of lookups.

`Propagation` polls. A probe is a name, a server and one of its addresses; `live` are the
probes not given up on, `answers` what the last pass heard, and between passes the wait
sleeps. Time is a clock that passes no deadline. The world moves by `CatchUp` (a secondary
gets a value) and `Reroute` (an address answers, is mute or has no route).

**Run** `propagation`: two names, one with two values; two servers, one with an A and an
AAAA; a query takes 1 for each of its two attempts, the interval is 1, the timeout 2, one
change of reachability after any start. Two passes and the one that meets the deadline fit
into the clock, which is all `EndPass` tells apart.

**Proofs** (`DnsCheckProofs`), for any names, servers, times: `HeardIsServed` and
`NoRouteIsLost` relate what was heard a pass ago to a world that has moved on; `OnTime`
bounds the clock. `EndsInTime` bounds the poll only, which starts once the walk is over.

## 9. BaoToken

`tok` is the token all tasks share, with the end of its lease as the server notes it;
`expiry` and `revoked` are OpenBao's own record. A task is before a request to OpenBao, or
waits for it, with a deadline (`due`), one HTTP timeout away.

| Action | Code |
|---|---|
| `Begin`, `Check`, `Recheck`, `Take` | `current_token`: two looks at the token, refreshed by whoever finds it stale, without a lock across requests |
| `Mint`, `Renew`, `Store`, `LoginFails`, `RenewFails` | `login` and `renew_self`, and OpenBao's side of them |
| `Serve`, `Deny`, `Answered`, `Refused`, `SendFails` | `send_once`, served at some time before its answer, and `send_authed`'s one retry |
| `LookedUp`, `Revoke`, `Tick` | the check at boot, revocation from outside, time |

**Run** `openbao`: two tasks and the boot; lease 4, skew 2, timeout 1, clock to 6, so a token
is refreshed once and the new one may be too; AppRole or static, leased or not, renewable or
not; one failure, refusal or revocation. The clock ends, so the run may stop. Fairness: of
each task's steps, as requests end with the timeout.

The skew must be at least two timeouts (`TokenAssumption`; in the code 60 s and 20 s).
**Proofs** (`BaoTokenProofs`): a stored token was minted at most one timeout ago, so its
true end is at most that much before the one noted (`NotedInTime`); a token that is sent
has more than the skew left by the server's account, hence more than a timeout in truth
(`LeaseInv`). `Progress` says what a request has done by where its task is.

## 10. Configuration

What an issuance is configured with. Credentials of an integration are version numbers;
key and URL of an account are the number of the registration they come from. The boot
migrates the key and the integrations, applies the provisioning file block by block, writes
the sentinel and serves; then creates, updates (with new credentials, masked ones or none),
deletions, registrations and issuances run statement by statement, in the database or in
OpenBao, and `ServerStops` and `Fails` end any of them.

**Run** `config`: 3 ids, 2 requests, a file of 2 integrations, 3 versions, 2 registrations, one
stop or failure. Two requests give every pair of handlers; three ids leave one for a create
after the file, or for the file to be applied a second time (`ServerStops` is bounded by
the ids left for it); two registrations let one replace the other. `overlapped`, `crossed`, `cut` and
`outdated` mark what the code leaves open: two updates of one integration, two
registrations at once, a re-registration cut short, an issuance that read its settings
before or during one.

**Proofs** (second half of `SecretStoreProofs`), for any ids, requests, blocks, versions and
registrations. `ConfigInv` has four parts beside the types. `BootHolds`: no request runs
during a boot, and what refers to OpenBao can be read. `RequestsHold`: what a create, update
or delete has read of its integration still is so, as long as no other update met it.
`CopiesHold`: how often each block of the file was applied, by this boot and by those that
stopped. `AccountHolds`: at each statement of a registration or an issuance, whose key and
whose URL is stored. They give `KeepsCredentials`, `ProvisionedInFull` and `AccountIsPaired`.

Left out: a second CA, provisioned settings and mappings (upserts, the same
when repeated). An update under which the row is deleted, or a create whose INSERT fails,
leaves a secret in OpenBao that no row refers to; the steps are modelled, and nothing reads
such a secret.

## 11. CliRequest

`certifi-cli request` with its PEM outputs, PKCS#12 archive, password file and sidecar, run
again and again by cron. `gen` is the generation of the server's certificate, and a file is
the generation of its content. `Download` is one GET per output of whatever the server
holds then; `Write`, `WritePassword`, `WritePfx` and `WriteSidecar` are atomic renames. Beside
the run, the server renews and rotates its `COOKIE_KEY` and somebody deletes files; `Fails`
and `Killed` end a run anywhere.

**Run** `cli`: three PEM outputs and the archive, three issuances of which the last comes
from another intermediate, two passwords, two faults. Two faults let a deleted file meet a
killed run, or one killed run follow another. Fairness: cron starts the command and the host
runs it; the server settles what is in flight (`InFlightSettles` of `CertLifecycle`, whose
exceptions are faults). `Removable` leaves out the password file: deleted together with a key
rotation and a killed run it leaves an archive that its password does not open (section 12).

**Proofs** (`CliRequestProofs`): `Behind` says that what a run holds or has written is no newer
than the server's certificate and the sidecar no newer than the archive; `Place` and `Sofar`
what an undisturbed run has done so far. `FilesCatchUp` is model-checked only.

## 12. Disagreements with the documents

`lifecycle_double_issue` ends in a counterexample to docs/certificates.md: two POSTs at the
same time can double-issue. The others were met while modelling; they are what the
excepted causes of the properties stand for, or hazards in `PROJECT.json`:

* `services/renewal.rs:247` counts on the retry sweep for a row left `issuing`; the sweep
  selects `active` and `failed` (47, 73).
* docs/secret-backend.md:131 has the migration scrub the database file; a boot does so only
  if it moved something itself (`secret_store.rs:532`).
* docs/secret-backend.md:135: re-issuing after going back to the database does not make a row
  readable, as `secret_ref` stays set and wins (`secret_store.rs:191`).
* docs/secret-backend.md:149: a certificate deleted while an issuance is under way leaves
  its secret (`certificates.rs:707`).
* docs/secret-backend.md:75, docs/installation.md:125: a static token is renewed while
  renewable, but only when a request comes close to the end of its lease; an idle server
  lets it lapse. A look-up that fails in a login after a 403 stops it being tracked.
* docs/api.md:574: a sign-in takes over assignments made by hand whose role the groups also
  give, and the next one removes them (`oidc.rs:462`).
* docs/api.md:502-507: two revocations, each past the count, remove the last SuperAdmin
  (`roles.rs:494`).
* The comments at `handlers/auth.rs:156` and `oidc.rs:219` say that reading and deleting a
  challenge or state keeps it from being used twice; two requests may read it before
  either deletes.
* docs/cli.md:221: orders of certificates that share a challenge name disturb each other
  (`acme.rs:288`).
* README.md:17 and docs/dns-providers.md:17: a name goes to the oldest integration that
  covers it, not to the one that owns its zone (`integrations/mod.rs:107`).
* docs/cli.md:178 and 217: a run killed between its writes and the reload command is not made
  up for; the next one exits 0 (`cli.rs:889`).
* The comment at `cli.rs:942`: an interrupted run is not retried if only the password file was
  missing and the sidecar is of this certificate.

## 13. What is proved, what is checked, what is neither

Proved for all values of the constants, under each module's named assumption, are all safety
and action properties of the passing runs of every module, the type invariants, and
the refinement of `RowClaim`; `FindsTheCut` under the three hypotheses of section 8.
Model-checked only: liveness, which is beyond the prover (`InFlightSettles`, `DueIsRenewed`,
`FailedIsRetried`, `OrderEnds`, `WalkReturns`, `RequestEnds`, `FilesCatchUp`).

The proofs rest on statements being atomic (SQLite), on an OpenBao write being seen by every
later read, and on the external actions as described above.

Not modelled: cryptography, formats, HTTP routing; name normalisation, which is string
rewriting without state; wording of mails and audit entries; live events (lossy by design);
the zone pre-flight, `update_meta` and the read-only handlers; custom roles and permissions
one by one; the web interface and the packaging. Challenges of sign-ins that stop half-way
are never swept, and zones whose nameservers name only each other cost a number of look-ups
that grows with the power of their count before the deadline starts: the first is bounded by
nothing in the code, the second by the nesting alone (`CallsNestShallow`), and no run's
property is about either.

Left for later: the composition of `SecretStore` with `BaoToken`.

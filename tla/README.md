# Verification of freemkv-unlock

TLA+ models of `freemkv-unlock`, the crate that makes optical drives serve
readable sectors, the TLC runs that check them, and TLAPS proofs about them.
Paths are relative to the repository, whose files are under `src/`.

## 1. The system

A consumer hands one drive, through `ScsiTransport::execute`, to a chain of
*unlockers*. Each is asked once per attempt and answers with the trait's three
outcomes (`src/src/lib.rs`): `Ok(Some)`, unlocked, stop; `Ok(None)`, not mine,
try the next; `Err(Transport)`, the bus is dead or the user pressed Stop, abort.
The program is one host thread per drive. It keeps hardly any state of its own:
the state that matters is in the drive, and it outlives the call. What is hard is
therefore not a data structure but the *conversation*: a command may be refused,
lose its answer, land in part, be acknowledged without effect, or wedge the drive;
a Stop may fall on any command; the drive may lose power between two of them; and
the next call meets what the last one left.

| Component | Source | State | Operations | Hard behaviour | What makes it correct | Module |
|---|---|---|---|---|---|---|
| Renesas hook transaction | `freemkv/renesas.rs`, `freemkv/mod.rs` | three callback slots, reserved RAM, activation bytes of the drive; `touched`, `existing`, `Prepared::original` of the call | recognise, prepare, stage, reprobe, activate, verify, roll back, tune | partial installation, rollback by commands that fail too, a resident hook, Stop inside the span, power loss | no dangling callback; all or nothing; a resident hook is kept; Stop is fatal | `RenesasInstall`, `UnlockContract` |
| MT1959 unlock | `ld/mod.rs`, `ld/platform/mt1959/` | image in the drive, restart in progress; `unlocked`, `init_complete`, attempt | unlock read, upload (variants A and B), silence, re-confirm, calibration, OEM Volume ID | restarts, re-reads, faults that wedge an impatient host, half an upload | at most `UNLOCK_ATTEMPTS` whole uploads; only a confirmed unlock is reported; silence after a fault | `Mt1959` |
| Readiness poll | `ld/platform/mt1959/mod.rs` (`await_media_ready`) | senses seen, last progress, run of 3A answers | TEST UNIT READY, START UNIT, wait | no total cap, slow answers against a window | bounded; empty drives are reported as such | `ReadyPoll` |
| CSS authentication | `css/mod.rs` | four authentication grants (AGIDs), the success flag | probe, sweep, allocate, challenge and response, release, disc key | grants abandoned by others, release after a Stop, disc change | one release per allocation; no starvation | `CssAuth` |
| AACS handshake | `aacs/mod.rs`, `aacs/handshake.rs` | AGIDs, revocation list; loop over certificates, what the drive has ruled out | arm, up-front gate, 1.0 and P-256 exchange, Volume ID, data keys | fallback between exchanges, three attempts for any list, pause between attempts | no leaked grant; no starved certificate; no unvouched Volume ID | `AacsHandshake` |
| Firmware control | `firmware/mod.rs`, `protocol.rs` | feature states in RAM and flash | SET, GET, RESET (three modes), SAVE, five recipes | a recipe that fails midway is not rolled back; other firmware answers GET with zeros | an Ok is in force; a failure leaves nothing unasked for | `FirmwareControl` |
| SCSI contract, critical spans | `scsi.rs` | cancelled, span depth, AGID guard | `execute`, `execute_cleanup`, `pause`, `CriticalGuard`, `AgidGuard` | what a Stop may and may not interrupt | | inside each module |
| Volume ID read | `vid.rs` | none | `read_aacs_vid` | best effort, but a dead bus is fatal | | at its callers: `RenesasInstall`, `AacsHandshake`, `FreemkvDispatch` |
| Resident payload | `freemkv/renesas.rs` (`operations`, `vid_wrapper`, `routing`) | security slot, borrowed acquisition callback, VID bytes inside the payload | SET, IDENTITY, Volume ID, routing to the OEM handler | runs in the drive and gives up the processor: background reader, media change, callbacks replaced under it | the callback and the bytes are given back; the policy changes only while the reader is at rest; every command is answered | `HookPayload`, `EncryptionSwitch` |
| freemkv dispatch | `freemkv/mod.rs`, `freemkv/mediatek.rs`, `lib.rs` | none of its own; the drive's implementation and feature states, the loader | knock, choice of the back end, load, activate | an answer lost or cut short; a probe that faults the bus of another unlocker's drive; code a power cycle takes away | running code is recognised; LD's drive reaches LD; no recipe or loader is sent to code it does not fit | `FreemkvDispatch` |
| Protocol identity | `protocol.rs` | none | `FirmwareIdentity::parse`, `ProtocolIdentity::parse` | version token next to raw state bytes, no terminator between them | a banner of a supported version is read as one | `ProtocolIdentity` |
| Drive catalog | `ld/profile.rs`, `profiles.json` | grows with the releases | `find_by_drive_id` | two passes, uniqueness across sections | no release hands a bound drive that reports a product id to another profile, unless by an exact match; without one only the new entry can take over | `ProfileMatch` |
| Unlock CDB filter, sleep guard lint | `ld/cdb.rs`, `tests/op_path_sleep_guard.rs` | none | a predicate over two bytes; a lint over the source text | | | not modelled |

Interaction is by call only: the consumer calls an unlocker; the unlocker sends
commands; `AacsUnlocker` calls `FirmwareControl::arm` and then goes on to its own
exchange; `LdUnlocker` calls the readiness poll behind an upload. What is *shared*
is the drive, and the fact that every layer must agree what a dead bus is
(`is_dead_bus`: status 0xFF and no sense; anything with a sense is a refusal).

## 2. The modules

All models have the same shape. The drive is a handful of variables; `pc` names the
next command of the host; one action is one command together with everything the
code does until the next one. A run of commands whose failures the code treats
alike is one step. An answer is a member of a small set: served, refused (by a
status, or by an `Err` that carries a sense, where the code tells them apart), dead.
At most `MaxFaults` commands misbehave; for a write that means that it may land
or not, independently of its answer. `Stop` refuses every later command outside a
critical span. History variables (named so) record what the properties compare with.

- **UnlockContract** is the abstract specification of one transactional unlocker:
  one opaque image in the drive, and which of the three outcomes may be returned
  when.
- **RenesasInstall** is the detailed specification: four cells (the READ BUFFER,
  READ DISC STRUCTURE and security slots, the reserved RAM), each factory, ours,
  another implementation's, or torn. Reading through a slot that dangles hangs the
  drive. `ContractHolds` is `UnlockContract` with the cells as the image.
- **EncryptionSwitch** is the abstract specification of one SET Encryption: GOOD
  means the policy asked for, a refusal the old one or the one asked for, and
  another implementation's policy is never replaced.
- **HookPayload** is the machine code that `assemble` and `vid_wrapper` emit, as it
  runs in the drive. A step is a stretch of code between two points at which the
  command task gives up the processor (delay, OEM dispatcher, data transfer); the
  reader, a media change and another owner of a callback run there and only there.
  `SwitchHolds` is `EncryptionSwitch` over its own variables.
- **Mt1959** has both upload variants, `init`'s attempts with the extra
  attempt that only confirms, the re-reads while the drive restarts, the four
  calibration passes, and `reconfirm_after_fault`.
- **ReadyPoll** has a clock; a command takes any time up to its timeout.
- **CssAuth** and **AacsHandshake** keep the set of grants the drive has given
  out; earlier sessions may have abandoned any of them. In `AacsHandshake` the list
  of certificates is chosen as the loop walks it, and a drive has one of eight
  combinations of certificates. Cryptography is "verifies" or "does not".
- **FirmwareControl** runs any sequence of raw verbs and recipes on freemkv firmware
  of this grammar, firmware of an older one, and none.
- **ProfileMatch** is the catalog and its lookup: an entry has a product id and the
  tuple of its four other identity fields, three sections make a catalog.
- **ProtocolIdentity** reads an IDENTITY answer byte by byte as far as that matters:
  blank, version token, the feature states that follow without a separator.
- **FreemkvDispatch** composes the two into `full_unlock_with_drive` over several
  calls. A live loader is outside the crate and does what `mediatek.rs` asks of it.
  The Renesas transaction is one step with the outcomes `RenesasInstall` has.
  Between the calls a host tool may set feature states, and a release may add an
  entry to the catalog; what the catalog says of the drive's platform stays true.

Definitions are named after the functions they stand for; `PROJECT.json` maps each
to its lines. The drive, the user and the bus are external: modelled from what the
code, its comments and its fixtures say of them. Definitions called *Variant* are
deliberately wrong versions of the one below them; substituting one must break a
property, which shows that the property is about the code.

`MC*` modules give the constants values. The eight modules named `...Proofs` contain
all theorems.

## 3. The runs

| Run | Size | What it shows |
|---|---|---|
| `renesas_install` | 3 calls, 2 faults, 1 power cycle or media change, Stop | no callback dangles (`HookIntact`), RAM is only written while nothing leads into it (`FilledDetached`), a drive hangs only after an announced failure (`HangIsAnnounced`), an undisturbed call is all or nothing, a resident hook stays, Stop is fatal, the contract holds |
| `hook_payload` | 3 commands, 2 delays granted to the reader, 1 callback replaced, media changes without bound; 111,600 states | at every reply the borrowed callback is back and the payload's bytes are as the host copied them; the policy is switched only under a reader at rest and as `EncryptionSwitch` promises; every command is answered |
| `freemkv_dispatch` | 2 calls, 1 fault, 1 power cycle, release or host tool, Stop; 5 catalogs, 4 Speed bytes; 1.9 million states | running code is recognised and unlocked (`Recognised`), LD's drive reaches LD, an unlock is real, the recipe and the loader run only where they fit, a release rebinds a drive that reports a product id only to an entry that names it exactly, and one that reports none only to the entry it adds (`BindingStable`) |
| `mt1959` | 2 calls, 3 faults, 1 drive reset, Stop, a transport that returns senses or raises them; 571,562 states | uploads are bounded and whole, an unlock reported is real, no command follows a dead bus without silence, a dead bus is fatal, an unlock survives a bus fault only if re-confirmed, a confirmed unlock is kept where senses are returned, every call ends |
| `mt1959_raised` | 1 call | finding 1 |
| `mt1959_speed` | 1 call | finding 2 |
| `ready_poll` | 6 answers, stall window 6, timeouts 1, 3 empty answers | the poll ends, within one stretch per distinct answer; a stall is never an empty drive |
| `css_auth` | 2 calls, 4 grants, 2 faults, 1 new disc, Stop | one release per allocation, abandoned grants starve nobody, an unlock is real even if the disc was swapped before the last key |
| `css_disc_key`, `css_probe` | as above | findings 3 and 4 |
| `aacs_handshake` | 4 certificates, 2 grants, 1 fault, Stop; 474,930 states | one release per allocation on success too, the attempt cap does not starve a certificate the drive would take, at most one certificate's exchanges between two pauses, a Volume ID is vouched for, a dead bus is fatal |
| `firmware_control` | 5 recipes, 3 firmwares, 2 raw SETs and all other verbs, 2 faults, power cycles without bound | an Ok is in force, or a power cycle has taken part of it back to the boot's state (`ArmIsReal`); a failed recipe that no power cycle hit leaves only states it wanted and other firmware alone (`NothingElse`), and turns encryption off last (`EncryptionLast`) |

Type invariants are not run: each is proved, as the first theorem of its module.

**Bounds.** A second call meets everything a first one can leave; the third
Renesas call meets what a second left after it had found a torn drive. Two faults
are the fault and the failure of the clean-up it leads to; three in `Mt1959` are
an upload that fails, its retry, and the fault of the calibration. Four grants
are what drives have; the AACS run needs only two (one held, one to leak), because
the sweep treats them alike. Four certificates are one more than `MAX_CERT_ATTEMPTS`,
so that the cap can bite. The poll's times keep the relation of the constants
(`MaxEmpty * (Poll + TurTime) <= Stall`), which is an assumption TLC evaluates.
The Speed bytes of the dispatch are the ones the version token tells apart: no
printable byte, a digit, a dot, and the OEM state. Its catalogs know the drive's
tuple not at all, once, twice in a section, twice across sections, or as a Renesas;
one event between two calls is all that `BindingStable` and a stale answer need.
Two delays are one the reader uses and one it exhausts; one replaced callback is
enough to find the slot no longer ours when it is to be given back.

**Deadlock** is checked for `firmware_control`, which has no end. The others stop
after their calls are used up, and say so with `CHECK_DEADLOCK FALSE`; that a call
with loops in it does not get stuck is `CallEnds`, `PollEnds` or `CommandEnds`.

**Fairness.** Only these three assume any. In `Mt1959` and `ReadyPoll` it is weak
fairness of `Host`: the call is one thread, every command carries a timeout
(`CMD_TIMEOUT_MS`, `TUR_TIMEOUT_MS`, ...) and every pause has a length, so the next
step of a call is always taken. In `HookPayload` it is weak fairness of `Task`: the
OEM routines the payload calls (delay, dispatcher, transfer) return, as they do for
the OEM code that calls them. Nothing is assumed of the background reader, of other
tasks, of the drive's answers, of Stop or of the power.

## 4. Findings

1. `read_oem_vid` (`ld/mod.rs:87`) makes any `Err` of the transport an error of the
   call. With a transport that raises drive senses as errors, as
   `scsi_mock_tests.rs:27` says the production adapter does, a refused Volume ID
   command discards an unlock the drive has confirmed; the trait calls the Volume
   ID best effort. Without such a transport it does not (`UnlockKept`).
2. The result of SET CD SPEED (`ld/platform/mt1959/mod.rs:591`) is dropped, so the
   one bus fault there keeps the unlock with no silence and no re-confirm, contrary
   to the comment at `ld/mod.rs:167`. `QuietAfterFault` and `Reconfirmed` name the
   exception.
3. `unlock_css_reads_inner` (`css/mod.rs:303`) drops a dead bus in the disc key
   read, and the refusal after a Stop, and reports an unlock.
4. `mounted_disc_is_dvd` (`css/mod.rs:287`) returns `Err(NotApplicable)` for a sense
   raised as an error; the trait promises that only a dead bus is an `Err`.

One disagreement between comments has no run, as the code it is about is in the
drive: `Verb::Save` is "the ONLY verb that writes the config to flash" and "RESET
touches RAM only" (`protocol.rs`), while `RESET_TO_OEM` blanks the flash block. The
model follows the latter, as `reset` and `arm_stealth_oem` do.

## 5. What is proved

TLAPS proves the following for every value of the constants, from the named
assumptions of the modules and nothing else. Every invariant and action property of
the passing runs is among it. In each module `TypeCorrect` comes first, and the
inductive invariant strengthens what is to be shown.

- **RenesasInstallProofs.** `HookIsIntact` and `FilledWhileDetached`;
  `StopAlwaysFatal`; `ResidentKept`; `KeepsContract`, the refinement of
  `UnlockContract`; `AllOrNothingHolds`; `HangsAreAnnounced`. `HookIntact` alone is
  not inductive: a write of the payload would break it if a slot were attached, and
  an attachment if the payload were torn. `IInv` adds `Detached` (at which `pc` which
  slots are known to be factory) and `Filled` (from which `pc` on the payload is known
  to be ours). `CallInv` adds what a call with an existing hook, and an untouched one,
  may have changed. `Orderly` says of a call nothing misbehaved in what the four
  cells hold at each step of the installation and of the removal (`Staged`), and that
  the removal has what it needs to restore (`Removable`). `Torn` says where a torn
  callback may be met at all. Any number of calls, faults, resets.
- **HookPayloadProofs.** `CallbackIsReturned`, `BytesAreKept`,
  `ReaderIsUndisturbed`, and `ImplementsSwitch`, the refinement of
  `EncryptionSwitch`, for any number of delays and commands. `Lent` confines the
  borrowed callback and the VID bytes to the one step that needs them; `AskedAt`
  ties each stretch to what the command asks for, which the mapping of `Switch` and
  `Good` rests on; `Counted` keeps the delays.
- **FreemkvDispatchProofs.** Of the lookup, for every catalog and every drive:
  `BindingIsSound`, `BindingIsComplete`, `GrowthRebindsExactly`. Of the dispatch, for
  every set of catalogs, banners and bounds: `UnlocksAreReal`, `LdIsReached`,
  `RecipeFits`, `LoaderSparesResidents`, `StopReported`, `ReleasesRebindExactly`, and
  `RunningCodeIsUnlocked`. `IInv` is six facts about where a call may be: no
  implementation where the loader may run (`Bare`), fitting code where the recipe is
  sent (`Fits`), nothing changed before the span (`Untouched`), LD's drive asked for
  its IDENTITY only (`LdFirst`), clear sectors behind Encryption (`Opened`), no flash
  where nothing is resident (`Unflashed`). `BannerIsRead` says what the
  parser makes of a banner, for every version and every Speed state: the state bytes
  follow the text without a terminator, so the token ends behind the first printable
  one (`TokenOfBanner`), and neither that byte nor any patch text reaches the two
  numbers (`NumbersOfToken`). Their value, the recursive `Number`, stays unexpanded:
  `VersionsAssumption` says of it that the supported version is recent enough and
  the old one is not, and TLC evaluates that. No theorem of this module takes a
  fact about the parser as its hypothesis.
  `BindingIsComplete` says which drives are bound: one that an entry names exactly,
  one whose four fields single out an entry, and one that reports no product id and
  matches at all, which takes the first match (`AnonymousFirst`).
  `ReleasesRebindExactly` carries the lookup's theorems through the three sections:
  a section, and so the concatenation of all, grows by one entry at one place
  (`ReleaseInserts`). A bound drive that reports a product id then stays, is unbound
  or is named exactly; for one that reports none, the first match is the old one or
  the entry added (`InsertionTakesOver`).
- **Mt1959Proofs.** `UploadsAreBounded`, `UploadsAreWhole`, `UnlocksAreReal`,
  `FaultsAreSettled`, `DeadBusEndsCall`, `UnlocksAreReconfirmed`, `UnlocksAreKept`,
  for any number of attempts, re-reads and tries. `Counted` and `Uploaded` bound the
  uploads by the attempt they belong to; `Half` confines half an upload to the span;
  `Real`, `Quiet`, `Vouched` and `Saved` say at each step of the calibration what the
  drive confirmed, and which fault is still unsettled.
- **ReadyPollProofs.** `PollIsBounded`, `NoMediumHolds`, `EmptyIsReported`, for
  every finite set of answers and all times in the relation `EmptyIsQuick`. The clock
  is bounded by a budget: every distinct answer buys one stretch,
  `lastProgress <= Cardinality(seen) * Stretch`; a run of empty answers is shorter
  than the window.
- **CssAuthProofs.** `GrantGivenBack`, `SweepMakesRoom`, `UnlocksAreReal`, for any
  number of grants. `Ours` says which grant is the call's own at each step, `Room`
  what the sweep has freed by then, `Granted` that the sectors of the disc in the
  drive are open before the disc key is read, unless it was swapped after the last
  key, `Failing` what a release behind a failure will report.
- **AacsHandshakeProofs.** `GrantsGivenBack`, `CertsAreNotStarved`,
  `DriveIsNotRushed`, `VolumeIdsAreVouched`, `DeadBusEndsCall`, for any number of
  grants and certificates. `Ours` and `Wanted` play the parts of `Ours` and `Room`,
  `Wanted` for the certificate under way as well: if the drive would take it, by
  this exchange or the next, the call has not given up on it. `Paced` counts the
  exchanges since the last pause, `Vouching` what has verified, `Hearing` where a
  dead bus may have been the last answer.
- **FirmwareControlProofs.** `OkIsReal`; `EncryptionIsLast`;
  `RecipesTouchNothingElse`, for every baked table, request set and number of
  faults. `Armed` strengthens `ArmIsReal`: the steps in front of the one a recipe is
  at are in force, because a SET disturbs no feature but its own (no recipe
  names a feature twice, `WellFormedSteps`) and a step is left only when its state
  was read back; what a power cycle took back since is as the boot left it
  (`Reached`). The other two are inductive relative to it. `OkOutlivesPowerCycle` adds
  what an Ok says at the moment it is returned, power cycle or not: the last step is
  in force. For the recipes that spare `AacsUnlocker` the certificates that step is
  Encryption, so the exchange is spared only if encryption was off when the recipe returned.

**How long a call can take.** Each state machine but `ReadyPoll`, whose time
`PollIsBounded` bounds, has a rank `Remaining`: a number the host's every step lowers
and no step of the environment raises. `CallsAreBounded` (`CommandsAreBounded`
for the payload, `RecipesAreBounded` for the recipes) proves both, and the bound:

| module | at most | the steps of a call |
|---|---|---|
| `CssAuth` | `Cardinality(Agids) + 7` | the media probe, one invalidation for each grant, six commands; 11 with the four grants of MMC |
| `AacsHandshake` | `3 * (2 * (Cardinality(Agids) + 8) + 1) + MaxCerts + 2` | a turn is a pause and two exchanges; a certificate is looked at, and the arming done, in one step |
| `Mt1959` | `Tail + (Attempts + 1) * Lap` | a lap is an upload with its re-reads, the tail what follows an unlock |
| `RenesasInstall` | 31 | installation and removal, wherever the first turns into the second |
| `FreemkvDispatch` | 10 | the Renesas transaction and the loader are one step each |
| `HookPayload` | `2 * Waits + 3` | of one command in the drive |
| `FirmwareControl` | 7 | IDENTITY, and a SET and a GET for each of three features |

In `RenesasInstall` and `FreemkvDispatch` the theorem says where a Stop is served, too:
outside the critical span the next step ends the call in Transport. The loops are
the reason for the ranks of `Mt1959` and `AacsHandshake`: a failed
upload leads to the next attempt, a certificate is given up at any command, with or
without a second exchange, and the rank has to fall on each of these ways back. The rank
counts the turns not yet taken (`Turns`, `Laps`), then what is left of this one. That
what is left is finite does not yet say that the host takes the next step: that is
the fairness the liveness properties assume.

`StopReported` and `NoMediumHolds` are proved and not run.

**Only model-checked.** The liveness properties (`CallEnds`, `PollEnds`,
`CommandEnds`): they rest on fairness, so on ENABLED, which the prover does not
reach. The ranks prove their safety half, for all values of the constants. And of
course the findings.

## 6. What is not modelled

- Cryptography (elliptic curves, CSS cipher, MACs, random numbers): verifies or not.
- The bytes of commands, payloads and profiles; JSON parsing; logging.
- How the Renesas payload is laid out, placed in an image of the reserved RAM, and
  encoded as H8S instructions; which reads and writes of the drive's memory find
  its slots. Modelled are the effects: the four cells on the host's side, and the
  control flow of the payload on the drive's. "Renesas hook transaction" is therefore
  listed as partly modelled.
- How the consumer orders its unlockers: it is not in this repository.
- Answers to a GET that another firmware does not know: zeros with GOOD, as the
  source describes them, are modelled for the older grammar (a version below the
  supported one) only.
- `DUMPALL`, the debug verbs and the CDB filter: they keep no state.
- What a failed recipe leaves behind when a power cycle hits it: nothing in the host can
  notice one, and `NothingElse` and `EncryptionLast` exclude that recipe (`ArmIsReal`
  does not).
- `CriticalGuard`'s nesting depth and the sense parser: the guards are modelled
  at every place that takes one, and no code nests them.
- The JSON of the catalog, and the CDB filter and the sleep-guard lint, which are
  pure predicates.

## 7. Plan

Done, in order of importance: `UnlockContract`, `RenesasInstall`, `Mt1959`,
`ReadyPoll`, `CssAuth`, `AacsHandshake`, `FirmwareControl`, `ProfileMatch` and
`ProtocolIdentity` composed in `FreemkvDispatch`, `EncryptionSwitch` and
`HookPayload`; the proofs of each.

Left:

1. Composition by refinement instead of by statement: `AacsHandshake!Arm` as an
   abstraction of `FirmwareControl`, and the `Hook` step of `FreemkvDispatch` as one of
   `UnlockContract`.
2. The layout of the payload: that the assembled blocks do not overlap and the
   branches reach their labels, over abstract block sizes.

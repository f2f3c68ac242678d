--------------------------- MODULE FreemkvDispatch ----------------------------
(***************************************************************************)
(* FreemkvUnlocker::unlock (src/src/freemkv/mod.rs): recognise what runs in*)
(* the drive, choose a back end, and activate it, over several calls, with *)
(* host tools that change the drive's feature states between the calls and *)
(* a catalog that grows with the releases of this crate.                   *)
(*                                                                         *)
(* One step is one command.  The hook transaction of a Renesas drive is one*)
(* step here, with the outcomes RenesasInstall is shown to have; the live  *)
(* loader is outside this crate and does what mediatek.rs asks of it.  At  *)
(* most MaxFaults commands misbehave: refused, dead on the bus, cut short, *)
(* or answered GOOD without effect.                                        *)
(***************************************************************************)
EXTENDS ProfileMatch, ProtocolIdentity

CONSTANTS
  Catalogs,     \* the catalogs the first call may find
  News,         \* the entries later releases may add
  Products,     \* the product ids the drive may report (NoProduct is one)
  Four,         \* the drive's four other identity fields
  SpeedBytes,   \* Speed states host tools leave in a flashed drive
  Versions,     \* [supported, old]: a version this host drives, one too old
  MaxCalls, MaxFaults, MaxEvents    \* bounds of a behaviour

ASSUME BoundsAssumption ==
  MaxCalls \in Nat /\ MaxFaults \in Nat /\ MaxEvents \in Nat
ASSUME BytesAssumption == SpeedBytes \subseteq 0..255

\* What a catalog lists, and what a release adds to one.
ListedEntries == [four : STRING, product : STRING]
ASSUME CatalogAssumption ==
  Catalogs \subseteq [Platforms -> Seq(ListedEntries)] /\ News \subseteq ListedEntries

\* How an implementation spells its version: "major.minor.patch", with numbers
\* that parse::<u32> holds: ten digits may overflow, nine cannot.
Numerals  == {s \in Seq(Digits) : Len(s) \in 1..9}
Spellings == [major : Numerals, minor : Numerals, patch : Seq(Graphic)]
Spelled(v) == v.major \o <<Dot>> \o v.minor \o <<Dot>> \o v.patch

ASSUME VersionsAssumption ==
  /\ {Versions.supported, Versions.old} \subseteq Spellings
  /\ RecentEnough(<<Number(Versions.supported.major), Number(Versions.supported.minor)>>)
  /\ ~RecentEnough(<<Number(Versions.old.major), Number(Versions.old.minor)>>)

\* The bytes behind the magic: the banner, then the states with Speed first.
Banner(version, state) == <<Space>> \o Spelled(version) \o <<state, 255>>

Hardware  == {"renesas", "renesasUnknown", "mt1959", "other"}
Residents == {"none", "flashed", "loaded", "old", "unknown", "pioneer"}
Flashable == {"none", "flashed", "old", "unknown"}
Verdicts  == {"none", "running", "unlocked", "declined", "transport"}

\* Running code whose IDENTITY this host can drive.
Supported == {"flashed", "loaded", "pioneer"}

VARIABLES
  \* the drive
  hardware,     \* what the Renesas probe and hook::prepare would find
  wedges,       \* the Renesas probe faults this drive's bus
  flash,        \* the implementation a power cycle brings back
  resident,     \* the implementation that runs now
  speed,        \* its Speed state
  encrypted,    \* the drive still serves bus-encrypted sectors
  wedged,       \* the bus is faulted until the next power cycle
  \* the world around it
  profiles,     \* the catalog
  product,      \* the product id the drive reports
  loaderKnows,  \* a live loader is configured and recognises the drive
  \* the call
  pc,           \* its next command
  result,       \* what the critical span will report
  cancelled,    \* Stop was pressed
  verdict,      \* how the call ended
  \* history, and what bounds the model
  found,        \* resident when the call began
  changed,      \* a command of this call changed the drive
  missed,       \* this call's first IDENTITY was lost: the drive looks unflashed
  died,         \* a command died although nobody pressed Stop
  faulty,       \* a command failed that the recipe does not ride out
  disturbed,    \* GOOD without effect, or a power cycle, in this call
  calls, faults, events

drive   == <<hardware, wedges, flash, resident, speed, encrypted, wedged>>
outside == <<profiles, product, loaderKnows>>
call    == <<pc, result, cancelled, verdict>>
history == <<found, changed, missed, died, faulty, disturbed, calls, faults, events>>
vars    == <<drive, outside, call, history>>

id == [four |-> Four, product |-> product]

\* Between CriticalGuard::enter and its drop.
CriticalSteps ==
  {"load", "reprobe", "region", "speed", "unrestricted", "encrypt", "vid", "close"}
Steps == CriticalSteps \cup
  {"idle", "probe", "platform", "prepared", "enterLoad", "hook", "rehook"}

-----------------------------------------------------------------------------
(***************************************************************************)
(* One command: what the drive answers if it executes the command, or,     *)
(* within the budget of faults, something else.  "tolerated" says that the *)
(* recipe rides a refusal of this command out.                             *)
(***************************************************************************)

Blocked  == cancelled /\ pc \notin CriticalSteps
Executes == ~Blocked /\ ~wedged

Misbehaves == Executes /\ faults < MaxFaults /\ faults' = faults + 1

Command(reply, answer, tolerated) ==
  \/ /\ reply = IF Executes THEN answer ELSE "dead"
     /\ died' = (died \/ (~Executes /\ ~Blocked))
     /\ UNCHANGED <<faulty, faults>>
  \/ /\ Misbehaves
     /\ reply \in {"refused", "short", "dead"}
     /\ died' = (died \/ reply = "dead")
     /\ faulty' = (faulty \/ ~(tolerated /\ reply = "refused"))

Goto(next) == pc' = next /\ UNCHANGED <<result, verdict>>

\* fallthrough: of the errors only Transport is told to the caller.
Return(how) == pc' = "idle" /\ verdict' = how /\ UNCHANGED result

\* The closure of the critical span ends; pause() comes next.
Leave(how) == pc' = "close" /\ result' = how /\ UNCHANGED verdict

book == <<cancelled, found, disturbed, calls, events>>

-----------------------------------------------------------------------------
(***************************************************************************)
(* Recognition.                                                            *)
(***************************************************************************)

\* The answer of the code that runs in the drive.
Answer(whole) ==
  [rest  |-> Banner(IF resident = "old" THEN Versions.old ELSE Versions.supported, speed),
   ext   |-> CASE resident = "unknown" -> "other"
               [] resident = "pioneer" -> "pioneer"
               [] OTHER -> "zeros",
   whole |-> whole]

\* What probe() makes of a reply: no implementation, one of the two this host
\* drives, or one it must leave alone.  ("short" still leads with the magic;
\* an answer that does not even do that is as good as a refusal.)
Identified(reply) ==
  IF reply = "refused" THEN "none" ELSE Parse(Answer(reply = "good"))

Identity(reply) ==
  /\ Command(reply, IF resident = "none" THEN "refused" ELSE "good", FALSE)
  /\ reply = "short" => resident # "none"

Begin ==
  /\ pc = "idle"
  /\ calls < MaxCalls
  /\ calls' = calls + 1
  /\ pc' = "probe" /\ verdict' = "running" /\ result' = "none"
  /\ found' = resident
  /\ cancelled' = FALSE /\ changed' = FALSE /\ missed' = FALSE
  /\ died' = FALSE /\ faulty' = FALSE /\ disturbed' = FALSE
  /\ UNCHANGED <<drive, outside, faults, events>>

\* Variants: whoever claims the drive, the Renesas probe is next; an
\* implementation nobody can drive counts as none.
ChooseProbing(identity) ==
  CASE identity = "Firmware"       -> Goto("prepared")
    [] identity = "PioneerRuntime" -> Goto("rehook")
    [] identity = "unknown"        -> Return("declined")
    [] identity = "none"           ->
         IF loaderKnows THEN Goto("enterLoad") ELSE Goto("platform")

ChooseOver(identity) ==
  CASE identity = "Firmware"            -> Goto("prepared")
    [] identity = "PioneerRuntime"      -> Goto("rehook")
    [] identity \in {"unknown", "none"} ->
         IF loaderKnows THEN Goto("enterLoad")
         ELSE IF LdClaims(profiles, id) THEN Return("declined") ELSE Goto("platform")

\* full_unlock_with_drive: the back end, or with no implementation in sight
\* the loader's drive, LD's drive, or perhaps a Renesas.
Choose(identity) ==
  CASE identity = "Firmware"       -> Goto("prepared")
    [] identity = "PioneerRuntime" -> Goto("rehook")
    [] identity = "unknown"        -> Return("declined")
    [] identity = "none"           ->
         IF loaderKnows THEN Goto("enterLoad")
         ELSE IF LdClaims(profiles, id) THEN Return("declined") ELSE Goto("platform")

Probe ==
  /\ pc = "probe"
  /\ \E reply \in {"good", "refused", "short", "dead"} :
       /\ Identity(reply)
       /\ missed' = (reply = "refused" /\ resident # "none")
       /\ IF reply = "dead" THEN Return("transport") ELSE Choose(Identified(reply))
  /\ UNCHANGED <<drive, outside, changed, book>>

\* is_renesas, which may fault the bus of a drive it was not meant for.
Platform ==
  /\ pc = "platform"
  /\ \/ /\ Executes /\ wedges
        /\ wedged' = TRUE
        /\ Return("transport")
        /\ UNCHANGED <<died, faulty, faults>>
     \/ /\ ~(Executes /\ wedges)
        /\ \E reply \in {"good", "refused", "dead"} :
             /\ Command(reply,
                  IF hardware \in {"renesas", "renesasUnknown"} THEN "good" ELSE "refused", FALSE)
             /\ CASE reply = "dead" -> Return("transport")
                  [] reply = "refused" -> Return("declined")
                  [] reply = "good" -> Goto("hook")
        /\ UNCHANGED wedged
  /\ UNCHANGED <<hardware, wedges, flash, resident, speed, encrypted, outside, changed,
                 missed, book>>

-----------------------------------------------------------------------------
(***************************************************************************)
(* The Renesas transaction, with the outcomes of UnlockContract.           *)
(***************************************************************************)

\* prepare() and check_prepared() accept the drive.
Hookable ==
  IF pc = "rehook" THEN resident = "pioneer" ELSE resident = "none" /\ hardware = "renesas"

Hooks(code, secret) ==
  /\ resident' = code /\ encrypted' = secret
  /\ changed' = (changed \/ code # resident \/ secret # encrypted)

\* It ran to its end: a Stop inside it is reported when its span closes.
HookDone ==
  /\ Executes /\ Hookable
  /\ Hooks("pioneer", FALSE)
  /\ \/ Return("unlocked") /\ UNCHANGED cancelled
     \/ Return("transport") /\ cancelled' = TRUE
  /\ UNCHANGED <<died, faulty, faults>>

\* Not a drive it knows, or one another implementation changed.
HookRefused ==
  /\ Executes /\ ~Hookable
  /\ Return(IF pc = "rehook" THEN "transport" ELSE "declined")
  /\ UNCHANGED <<resident, encrypted, changed, cancelled, died, faulty, faults>>

\* Something misbehaved: declined means untouched, Transport says nothing.
HookFailed ==
  /\ Misbehaves
  /\ faulty' = TRUE
  /\ \/ /\ pc = "hook" /\ Return("declined")
        /\ UNCHANGED <<resident, encrypted, changed, cancelled>>
     \/ /\ Return("transport")
        /\ \E code \in {resident, "pioneer"}, secret \in {encrypted, FALSE} :
             (code # resident => Hookable) /\ Hooks(code, secret)
        /\ cancelled' \in {cancelled, TRUE}
  /\ died' \in {died, TRUE}

HookDead ==
  /\ ~Executes
  /\ Return("transport")
  /\ died' = (died \/ ~Blocked)
  /\ UNCHANGED <<resident, encrypted, changed, cancelled, faulty, faults>>

Hook ==
  /\ pc \in {"hook", "rehook"}
  /\ HookDone \/ HookRefused \/ HookFailed \/ HookDead
  /\ UNCHANGED <<hardware, wedges, flash, speed, wedged, outside, missed,
                 found, disturbed, calls, events>>

-----------------------------------------------------------------------------
(***************************************************************************)
(* The live loader, and the activation of an implementation that is there. *)
(***************************************************************************)

\* CriticalGuard::enter fails once the operation is cancelled.
Enter ==
  /\ pc \in {"prepared", "enterLoad"}
  /\ IF cancelled THEN Return("transport")
     ELSE Goto(IF pc = "prepared" THEN "region" ELSE "load")
  /\ UNCHANGED <<drive, outside, changed, missed, died, faulty, faults, book>>

\* load(): a failed one has put the drive back; what a successful one leaves
\* is safe, but need not be what this host speaks.
Load ==
  /\ pc = "load"
  /\ \E reply \in {"good", "refused", "dead"} :
       /\ Command(reply, "good", FALSE)
       /\ CASE reply = "good" -> resident' \in {"loaded", "unknown"} /\ changed' = TRUE
                                 /\ Goto("reprobe")
            [] reply = "refused" -> Leave("declined") /\ UNCHANGED <<resident, changed>>
            [] reply = "dead" -> Leave("transport") /\ UNCHANGED <<resident, changed>>
  /\ UNCHANGED <<hardware, wedges, flash, speed, encrypted, wedged, outside, missed, book>>

\* The loaded code must identify itself, as Firmware.
Reprobe ==
  /\ pc = "reprobe"
  /\ \E reply \in {"good", "refused", "short", "dead"} :
       /\ Identity(reply)
       /\ IF reply = "dead" THEN Leave("transport")
          ELSE IF Identified(reply) = "Firmware" THEN Goto("region") ELSE Leave("declined")
  /\ UNCHANGED <<drive, outside, changed, missed, book>>

\* A best-effort SET: only a dead bus stops the recipe.
Optional(at, next) ==
  /\ pc = at
  /\ \E reply \in {"good", "refused", "dead"} :
       /\ Command(reply, "good", TRUE)
       /\ speed' = IF at = "speed" /\ reply = "good" THEN 1 ELSE speed
       /\ changed' = (changed \/ reply = "good")
       /\ IF reply = "dead" THEN Leave("transport") ELSE Goto(next)
  /\ UNCHANGED <<hardware, wedges, flash, resident, encrypted, wedged, outside, missed, book>>

\* Variant: a refused Encryption SET is best effort like the others.
EncryptLenient ==
  /\ pc = "encrypt"
  /\ \E reply \in {"good", "refused", "dead"} :
       /\ Command(reply, "good", FALSE)
       /\ encrypted' = (encrypted /\ reply # "good")
       /\ changed' = (changed \/ reply = "good")
       /\ IF reply = "dead" THEN Leave("transport") ELSE Goto("vid")
  /\ UNCHANGED <<hardware, wedges, flash, resident, speed, wedged, outside, missed, book>>

SetRegion       == Optional("region", "speed")
SetSpeed        == Optional("speed", "unrestricted")
SetUnrestricted == Optional("unrestricted", "encrypt")

\* SET Encryption=OFF is the unlock; GOOD may also have had no effect.
Encrypt ==
  /\ pc = "encrypt"
  /\ \/ /\ \E reply \in {"good", "refused", "dead"} :
             /\ Command(reply, "good", FALSE)
             /\ encrypted' = (encrypted /\ reply # "good")
             /\ changed' = (changed \/ reply = "good")
             /\ CASE reply = "dead" -> Leave("transport")
                  [] reply = "refused" -> Leave("declined")
                  [] reply = "good" -> Goto("vid")
        /\ UNCHANGED disturbed
     \/ /\ Misbehaves
        /\ disturbed' = TRUE
        /\ Goto("vid")
        /\ UNCHANGED <<encrypted, changed, died, faulty>>
  /\ UNCHANGED <<hardware, wedges, flash, resident, speed, wedged, outside, missed,
                 cancelled, found, calls, events>>

\* The bare VID read: an unreadable VID is not a failure.
GetVid ==
  /\ pc = "vid"
  /\ \E reply \in {"good", "refused", "dead"} :
       /\ Command(reply, "good", TRUE)
       /\ Leave(IF reply = "dead" THEN "transport" ELSE "unlocked")
  /\ UNCHANGED <<drive, outside, changed, missed, book>>

\* The span closes, and pause(0) reports a Stop that was held back by it.
Close ==
  /\ pc = "close"
  /\ Return(IF cancelled THEN "transport" ELSE result)
  /\ UNCHANGED <<drive, outside, changed, missed, died, faulty, faults, book>>

-----------------------------------------------------------------------------
(***************************************************************************)
(* The environment.                                                        *)
(***************************************************************************)

Stop ==
  /\ pc # "idle" /\ ~cancelled
  /\ cancelled' = TRUE
  /\ UNCHANGED <<drive, outside, pc, result, verdict, history>>

PowerCycle ==
  /\ events < MaxEvents
  /\ events' = events + 1
  /\ resident' = flash /\ speed' = 255 /\ encrypted' = TRUE /\ wedged' = FALSE
  /\ disturbed' = TRUE
  /\ UNCHANGED <<hardware, wedges, flash, outside, call, found, changed, missed, died,
                 faulty, calls, faults>>

\* FirmwareControl, in another program, between the calls.
Reconfigure ==
  /\ pc = "idle" /\ resident # "none" /\ ~wedged
  /\ events < MaxEvents
  /\ events' = events + 1
  /\ speed' \in IF resident = "pioneer" THEN {speed} ELSE SpeedBytes
  /\ encrypted' \in BOOLEAN
  /\ verdict' = "none"
  /\ UNCHANGED <<hardware, wedges, flash, resident, wedged, outside, pc, result, cancelled,
                 found, changed, missed, died, faulty, disturbed, calls, faults>>

\* What the catalog says of the drive's platform is so.
Truthful(catalog) ==
  LET platform == Find(catalog, id).platform IN
  /\ platform \in {"mt1959_a", "mt1959_b"} => hardware = "mt1959"
  /\ platform = "renesas" => hardware \in {"renesas", "renesasUnknown"}

\* A later release of this crate knows one more drive.
Release ==
  /\ pc = "idle"
  /\ events < MaxEvents
  /\ events' = events + 1
  /\ \E platform \in Platforms, entry \in News :
       \E k \in 1..(Len(profiles[platform]) + 1) :
         profiles' = [profiles EXCEPT ![platform] = Inserted(@, k, entry)]
  /\ Truthful(profiles')
  /\ verdict' = "none"
  /\ UNCHANGED <<drive, product, loaderKnows, pc, result, cancelled,
                 found, changed, missed, died, faulty, disturbed, calls, faults>>

Host ==
  \/ Probe \/ Platform \/ Hook \/ Enter \/ Load \/ Reprobe
  \/ SetRegion \/ SetSpeed \/ SetUnrestricted \/ Encrypt \/ GetVid \/ Close

Environment == Stop \/ PowerCycle \/ Reconfigure \/ Release

\* Flashed code runs on MT1959 drives; the loader and the hook are volatile.
Init ==
  /\ hardware \in Hardware
  /\ wedges \in BOOLEAN /\ (wedges => hardware = "mt1959")
  /\ flash \in Flashable /\ (flash # "none" => hardware = "mt1959")
  /\ \/ resident = flash
     \/ flash = "none" /\ hardware = "mt1959" /\ resident = "loaded"
     \/ hardware = "renesas" /\ resident = "pioneer"
  /\ speed \in SpeedBytes
  /\ encrypted \in BOOLEAN /\ wedged = FALSE
  /\ profiles \in Catalogs /\ product \in Products
  /\ Truthful(profiles)
  /\ loaderKnows \in BOOLEAN /\ (loaderKnows => hardware = "mt1959")
  /\ pc = "idle" /\ result = "none" /\ cancelled = FALSE /\ verdict = "none"
  /\ found = resident
  /\ changed = FALSE /\ missed = FALSE /\ died = FALSE /\ faulty = FALSE
  /\ disturbed = FALSE
  /\ calls = 0 /\ faults = 0 /\ events = 0

Next == Begin \/ Host \/ Environment

Spec == Init /\ [][Next]_vars

-----------------------------------------------------------------------------
(***************************************************************************)
(* Properties.                                                             *)
(***************************************************************************)

DriveTypeOK ==
  /\ hardware \in Hardware /\ wedges \in BOOLEAN
  /\ flash \in Flashable /\ resident \in Residents
  /\ speed \in SpeedBytes \cup {1, 255}
  /\ encrypted \in BOOLEAN /\ wedged \in BOOLEAN
  /\ profiles \in [Platforms -> Seq(ListedEntries)]
  /\ product \in Products /\ loaderKnows \in BOOLEAN

CallTypeOK ==
  /\ pc \in Steps /\ cancelled \in BOOLEAN
  /\ result \in Verdicts /\ verdict \in Verdicts

HistoryTypeOK ==
  /\ found \in Residents
  /\ changed \in BOOLEAN /\ missed \in BOOLEAN /\ died \in BOOLEAN
  /\ faulty \in BOOLEAN /\ disturbed \in BOOLEAN

WithinBounds ==
  calls \in 0..MaxCalls /\ faults \in 0..MaxFaults /\ events \in 0..MaxEvents

\* The variables stay in their ranges; a release keeps the catalog one.
TypeOK == DriveTypeOK /\ CallTypeOK /\ HistoryTypeOK /\ WithinBounds

Ended == pc = "idle" /\ verdict # "none"

\* A drive that runs an implementation this host speaks is unlocked by every
\* call that nothing stops, whatever feature states earlier tools left in the
\* bytes behind its version, and although it refuses the optional settings or
\* the VID (FirmwareIdentity::parse, activate).
Recognised ==
  Ended /\ found \in Supported /\ ~(faulty \/ died \/ cancelled \/ disturbed)
    => verdict = "unlocked"

\* A drive LD claims that runs no implementation, and that no live loader knows,
\* gets to LD: freemkv declines it unless a command died or Stop was pressed, and
\* never reports a dead bus that its own Renesas probe brought about.
LdReached ==
  Ended /\ found = "none" /\ ~loaderKnows /\ LdClaims(profiles, id)
    => verdict = "declined" \/ died \/ cancelled

\* "Unlocked" is said of a drive that serves clear sectors, unless a GOOD without
\* effect or a power cycle in the call deceived the host.
UnlockIsReal ==
  Ended /\ verdict = "unlocked" /\ ~disturbed => ~encrypted /\ resident \in Supported

\* A Stop pressed during a call makes it end in Transport, unless the call had
\* already found nothing to do; then it changed nothing, and did not unlock.
StopIsReported ==
  Ended /\ cancelled => verdict = "transport" \/ (verdict = "declined" /\ ~changed)

\* The flashed-firmware recipe is only ever sent to code that identified
\* itself as that: never to a runtime hook, an older freemkv, an unknown
\* descriptor, or on the strength of an answer cut short, unless a power cycle
\* in the call brings back what the flash holds.
BackendFits ==
  pc \in {"region", "speed", "unrestricted", "encrypt", "vid"}
    => resident \in {"flashed", "loaded"} \/ disturbed

\* The live loader never runs over an implementation, not even over one this
\* host cannot drive, unless the drive hid it from this call's IDENTITY or a power
\* cycle in the call brought it back.
NoBlindLoad ==
  [][pc = "load" /\ resident' # resident => resident = "none" \/ missed \/ disturbed']_vars

\* The entry this release adds.
Added(binding) ==
  \E platform \in Platforms, entry \in News : \E k \in 1..(Len(profiles[platform]) + 1) :
    /\ profiles'[platform] = Inserted(profiles[platform], k, entry)
    /\ binding = [platform |-> platform, four |-> entry.four, product |-> entry.product]

\* A release that adds a drive never hands a bound drive that reports a product
\* id to another profile's firmware, unless the entry it is bound to then names
\* it exactly.  A bound drive that reports none takes the first entry with its
\* four fields: it stays bound, and only the new entry can take it over.
BindingStable ==
  [][LET before == Find(profiles, id)
         after  == Find(profiles, id)'
     IN before # NoEntry /\ after # before =>
          IF product # NoProduct
          THEN after = NoEntry \/ Exact(after, id)
          ELSE Added(after) /\ FourField(after, id)]_vars
=============================================================================

-------------------------------- MODULE Upnp --------------------------------
(***************************************************************************)
(* One port mapping of src/upnp.rs: the PortMap the program holds, the     *)
(* lease the gateway holds for it, and the requests that travel between    *)
(* the two.  The caller owns the PortMap exclusively (`&mut PortMap`), so  *)
(* at most one of add_port, renew_port and remove_port runs at a time, in  *)
(* whatever order; each is an HTTP exchange that time passes during, that  *)
(* the gateway serves or not, and whose answer may be lost after it served *)
(* the request.  The gateway may also restart and forget the mapping.      *)
(*                                                                         *)
(* Time is counted in units.  The program compares only the AGE of the     *)
(* timestamp with MAPPING_TIMEOUT, so ages and remaining lease times stand *)
(* for absolute clock values.                                              *)
(***************************************************************************)
EXTENDS Integers

CONSTANTS
    MAPPING_DURATION,   \* the lease asked of the gateway
    MaxGap              \* longest time between two successful renew_port calls

(***************************************************************************)
(* MAPPING_TIMEOUT, the age from which renew_port sends a request.         *)
(***************************************************************************)
MAPPING_TIMEOUT == MAPPING_DURATION \div 2

ASSUME UpnpAssumption ==
    /\ MAPPING_DURATION \in Nat
    /\ MaxGap \in Nat \ {0}
    \* A renewal that starts as late as it may, and is served as late as it
    \* may, still reaches the gateway before the lease ends.
    /\ MAPPING_TIMEOUT + 2 * MaxGap <= MAPPING_DURATION

VARIABLES
    supports,   \* the leases the gateway grants: "timed" or only "permanent"
    status,     \* the PortMap: none yet (or add_port failed), held, closing
                \* from the first remove_port on, released once one succeeded
    timeout,    \* PortMap.timeout: the lease the PortMap is renewed with
    age,        \* now - PortMap.timestamp
    call,       \* the method in progress
    request,    \* its request: on the way, or served by the gateway
    lease,      \* the gateway's entry: none, granted, or lost in a restart
    left,       \* what is left of the lease: 0 once it is gone or has run out
    outage,     \* history: time since the lease was lost
    idle        \* history: time since add_port or renew_port succeeded

program == <<status, timeout, age, call>>
gateway == <<supports, lease, left, outage>>
vars == <<supports, status, timeout, age, call, request, lease, left, outage, idle>>

\* Bounds: past these values an age and an outage change nothing below.
AgeCap == MAPPING_TIMEOUT + MaxGap
OutageCap == MAPPING_TIMEOUT + 2 * MaxGap

\* A permanent lease; every other value of left counts down to 0, no lease.
Forever == MAPPING_DURATION + 1
Granted(duration) == IF duration = 0 THEN Forever ELSE duration

TypeOK ==
    /\ supports \in {"timed", "permanent"}
    /\ status \in {"none", "failed", "held", "closing", "released"}
    /\ timeout \in {0, MAPPING_DURATION}
    /\ age \in 0 .. AgeCap
    /\ call \in {"idle", "add", "addPermanent", "renew", "remove"}
    /\ request \in {"none", "sent", "served"}
    /\ lease \in {"none", "granted", "lost"}
    /\ left \in 0 .. Forever
    /\ outage \in 0 .. OutageCap
    /\ idle \in 0 .. MaxGap

Init ==
    /\ supports \in {"timed", "permanent"}
    /\ status = "none"
    /\ timeout = 0
    /\ age = 0
    /\ call = "idle"
    /\ request = "none"
    /\ lease = "none"
    /\ left = 0
    /\ outage = 0
    /\ idle = 0
-----------------------------------------------------------------------------
\* A PortMap exists: renew_port and remove_port can be called on it.
HasPortMap == status \in {"held", "closing", "released"} /\ call = "idle"

Adding == call \in {"add", "addPermanent"}

\* A method sends its request; a method returns, whatever became of it.
Send(method) == call' = method /\ request' = "sent"
Return == call' = "idle" /\ request' = "none"

(***************************************************************************)
(* add_port.                                                               *)
(***************************************************************************)
AddPort ==
    /\ status = "none" /\ call = "idle"
    /\ Send("add")
    /\ idle' = 0
    /\ UNCHANGED <<status, timeout, age, gateway>>

\* OnlyPermanentLeasesSupported: ask again for a lease of 0.
AddPermanent ==
    /\ call = "add" /\ supports = "permanent"
    /\ Send("addPermanent")
    /\ UNCHANGED <<status, timeout, age, idle, gateway>>

\* A slip the checks must notice: the wrong constant kept for renewals.
AddOkKeepingTimeout ==
    /\ Adding /\ request = "served"
    /\ status' = "held"
    /\ timeout' = IF call = "add" THEN MAPPING_TIMEOUT ELSE 0
    /\ age' = 0
    /\ Return
    /\ idle' = 0
    /\ UNCHANGED gateway

AddOk ==
    /\ Adding /\ request = "served"
    /\ status' = "held"
    /\ timeout' = IF call = "add" THEN MAPPING_DURATION ELSE 0
    /\ age' = 0
    /\ Return
    /\ idle' = 0
    /\ UNCHANGED gateway

AddErr ==
    /\ Adding
    /\ status' = "failed"
    /\ Return
    /\ UNCHANGED <<timeout, age, idle, gateway>>

(***************************************************************************)
(* renew_port: nothing to do for a removed mapping (timestamp 0) or one    *)
(* younger than MAPPING_TIMEOUT, otherwise one request to the gateway.     *)
(***************************************************************************)
\* Slips: the boundary taken for young enough; the timestamp 0 forgotten.
FreshAtTimeout == status = "released" \/ age <= MAPPING_TIMEOUT
FreshByAge == age < MAPPING_TIMEOUT

Fresh == status = "released" \/ age < MAPPING_TIMEOUT

RenewSkip ==
    /\ HasPortMap /\ Fresh
    /\ idle' = 0
    /\ UNCHANGED <<request, program, gateway>>

RenewPort ==
    /\ HasPortMap /\ ~Fresh
    /\ Send("renew")
    /\ UNCHANGED <<status, timeout, age, idle, gateway>>

RenewOk ==
    /\ call = "renew" /\ request = "served"
    /\ age' = 0
    /\ Return
    /\ idle' = 0
    /\ UNCHANGED <<status, timeout, gateway>>

\* A slip: the timestamp taken before the request has succeeded.
RenewErrStamped ==
    /\ call = "renew"
    /\ age' = 0
    /\ Return
    /\ UNCHANGED <<status, timeout, idle, gateway>>

\* Another: an answer awaited without a timeout.
RenewErrAnswered ==
    /\ call = "renew" /\ request = "served"
    /\ Return
    /\ UNCHANGED <<status, timeout, age, idle, gateway>>

RenewErr ==
    /\ call = "renew"
    /\ Return
    /\ UNCHANGED <<status, timeout, age, idle, gateway>>

(***************************************************************************)
(* remove_port: the PortMap is cleared only if the gateway confirms.       *)
(***************************************************************************)
RemovePort ==
    /\ HasPortMap
    /\ status' = IF status = "held" THEN "closing" ELSE status
    /\ Send("remove")
    /\ UNCHANGED <<timeout, age, idle, gateway>>

RemoveOk ==
    /\ call = "remove" /\ request = "served"
    /\ status' = "released"
    /\ Return
    /\ UNCHANGED <<timeout, age, idle, gateway>>

RemoveErr ==
    /\ call = "remove"
    /\ Return
    /\ UNCHANGED <<status, timeout, age, idle, gateway>>
-----------------------------------------------------------------------------
(***************************************************************************)
(* The gateway: add_any_port and add_port grant a lease, unless it is a    *)
(* timed one and the gateway knows only permanent ones; remove_port needs  *)
(* a mapping to remove, which a released PortMap (port 0) never names.     *)
(***************************************************************************)
Grant(duration) ==
    /\ supports = "permanent" => duration = 0
    /\ lease' = "granted"
    /\ left' = Granted(duration)
    /\ outage' = 0

Delete ==
    /\ status = "closing" /\ left > 0
    /\ lease' = "none"
    /\ left' = 0
    /\ UNCHANGED outage

Serve ==
    /\ request = "sent"
    /\ request' = "served"
    /\ \/ call = "add" /\ Grant(MAPPING_DURATION)
       \/ call = "addPermanent" /\ Grant(0)
       \/ call = "renew" /\ Grant(timeout)
       \/ call = "remove" /\ Delete
    /\ UNCHANGED <<supports, idle, program>>

\* The gateway restarts and has lost its mappings.
Restart ==
    /\ left > 0
    /\ lease' = "lost"
    /\ left' = 0
    /\ outage' = 0
    /\ UNCHANGED <<supports, request, idle, program>>

(***************************************************************************)
(* One unit of time, which may pass during a request as well.  While the   *)
(* program is adding or holding the mapping it never waits longer than     *)
(* MaxGap for add_port or renew_port to succeed.                           *)
(***************************************************************************)
Waiting == Adding \/ status = "held"

Pass ==
    /\ idle' = IF Waiting /\ idle < MaxGap THEN idle + 1 ELSE idle
    /\ age' = IF age < AgeCap THEN age + 1 ELSE age
    /\ left' = IF left \in {0, Forever} THEN left ELSE left - 1
    /\ outage' = IF lease = "lost" /\ outage < OutageCap THEN outage + 1 ELSE outage
    /\ UNCHANGED <<supports, status, timeout, call, request, lease>>

Tick == (Waiting => idle < MaxGap) /\ Pass

Next ==
    \/ AddPort \/ AddPermanent \/ AddOk \/ AddErr
    \/ RenewSkip \/ RenewPort \/ RenewOk \/ RenewErr
    \/ RemovePort \/ RemoveOk \/ RemoveErr
    \/ Serve \/ Restart \/ Tick

Spec == Init /\ [][Next]_vars
-----------------------------------------------------------------------------
(***************************************************************************)
(* A mapping the program holds is never unmapped by the passing of         *)
(* time: unless the gateway restarted, its lease has not run out, although *)
(* the timestamp is taken when the answer arrives, not when the lease      *)
(* starts, and although the renewal itself takes time and may have to be   *)
(* repeated (renew_port, MAPPING_TIMEOUT).                                 *)
(***************************************************************************)
LeaseAlive == status = "held" /\ lease # "lost" => left > 0

(***************************************************************************)
(* A mapping the gateway lost in a restart, timed or permanent, is asked   *)
(* for again: renew_port bounds the outage, since it sends its request     *)
(* whatever the gateway's state is once the timestamp is old enough.       *)
(***************************************************************************)
OutageBounded == status = "held" /\ lease = "lost" => outage < OutageCap

(***************************************************************************)
(* Once remove_port has succeeded, no later call maps the port again: the  *)
(* cleared timestamp makes renew_port return early.                        *)
(***************************************************************************)
ReleasedIsUnmapped == status = "released" => left = 0
=============================================================================

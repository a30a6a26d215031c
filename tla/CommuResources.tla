--------------------------- MODULE CommuResources ---------------------------
(***************************************************************************)
(* The RDMA resources of a commu: its constructor, which opens a device,   *)
(* asks for its attributes and creates protection domain, memory region,   *)
(* completion channel, completion queue and QP, and its destructor.        *)
(*                                                                         *)
(* A step that fails prints, runs the destructor (`~commu()', read as      *)
(* this->~commu()) and then goes on: neither it nor its caller returns.    *)
(* The first use of a null or released object ends the behaviour with      *)
(* ended = "undefined".  External: the verbs library; it refuses to        *)
(* release what another object depends on.                                 *)
(***************************************************************************)
EXTENDS Naturals, Sequences, FiniteSets

CONSTANTS Names,         \* device names
          MaxPorts,      \* bound on phys_port_cnt and ib_port
          Mtus,          \* values of active_mtu, an enum ibv_mtu
          Sizes,         \* values of get_elesize(), in bytes
          NoDevice       \* the null device name, and no device

ASSUME CommuAssumption == /\ MaxPorts \in Nat \ {0} /\ NoDevice \notin Names
                          /\ Mtus \subseteq 1 .. 5 /\ Sizes \subseteq Nat

VARIABLES
    given,          \* the devices and the parameters of the constructor
    list, device,   \* the device list; the device that was opened
    live,           \* objects that exist
    fields,         \* members that are not null
    pc,             \* the constructor's step; "built", "destroyed"
    order,          \* what the destructor has yet to look at
    failed,         \* has a step failed?
    ended           \* why the process ended, if it has

commuVars == <<given, list, device, live, fields, pc, order, failed, ended>>

DeviceLists == {<<>>} \union {<<a>> : a \in Names}
                      \union {l \in Names \X Names : l[1] # l[2]}

CommuInit ==
    /\ given \in [devices : DeviceLists, dev_name : Names \union {NoDevice},
                  ib_port : 0 .. MaxPorts + 1, phys_port_cnt : 1 .. MaxPorts,
                  active_mtu : Mtus, elesize : Sizes]
    /\ list = "none" /\ device = NoDevice
    /\ live = {"device_attr_ex", "port_attr"} /\ fields = live
    /\ pc = "list" /\ order = <<>> /\ failed = FALSE /\ ended = "no"

(* What an object was made from, and cannot outlive. *)
Parents == [context |-> {}, device_attr_ex |-> {}, port_attr |-> {},
            pd |-> {"context"}, mr |-> {"pd"}, comp_channel |-> {"context"},
            cq |-> {"context", "comp_channel"}, qp |-> {"pd", "cq"}]
-----------------------------------------------------------------------------
(* __open_context: every failure ends the process. *)
Wanted == {k \in DOMAIN given.devices :
              IF given.dev_name = NoDevice THEN k = 1 ELSE given.devices[k] = given.dev_name}

Leave(why) == ended' = why /\ UNCHANGED <<given, device, live, fields, pc, order, failed>>

GetDeviceList == /\ pc = "list"
                 /\ IF given.devices = <<>> THEN Leave("list") /\ UNCHANGED list
                    ELSE /\ list' = "live" /\ pc' = "open"
                         /\ UNCHANGED <<given, device, live, fields, order, failed, ended>>

(* Mutant of OpenDevice: the first device, whatever its name. *)
OpenFirst == /\ pc = "open" /\ list' = "freed"
             /\ device' = given.devices[1]
             /\ live' = live \union {"context"} /\ fields' = fields \union {"context"}
             /\ pc' = "device" /\ UNCHANGED <<given, order, failed, ended>>

OpenDevice == /\ pc = "open" /\ list' = "freed"
              /\ IF Wanted = {} THEN Leave("einval")
                 ELSE \/ Leave("open")
                      \/ /\ \E k \in Wanted : device' = given.devices[k]
                         /\ live' = live \union {"context"}
                         /\ fields' = fields \union {"context"}
                         /\ pc' = "device" /\ UNCHANGED <<given, order, failed, ended>>
-----------------------------------------------------------------------------
(* The other helpers, call by call: what each uses, and what comes next.   *)
Uses == [device |-> {"context", "device_attr_ex"},
         port |-> {"port_attr", "device_attr_ex"},
         mtu |-> {"port_attr"},
         pd |-> {"context"}, mr |-> {"pd"}, comp_channel |-> {"context"},
         cq |-> {"context", "comp_channel", "device_attr_ex"},
         qp |-> {"pd", "cq", "port_attr"}, cap |-> {"qp"}]

After == [device |-> "port", port |-> "mtu", mtu |-> "pd", pd |-> "mr", mr |-> "comp_channel",
          comp_channel |-> "cq", cq |-> "qp", qp |-> "cap", cap |-> "built"]

Creates == {"pd", "mr", "comp_channel", "cq", "qp"}

(* active_mtu is a code, IBV_MTU_256 = 1 to IBV_MTU_4096 = 5; the check    *)
(* compares it with a size in bytes, and refuses sizes that would fit.     *)
CanSucceed == /\ pc = "port" => given.ib_port \in 1 .. given.phys_port_cnt
              /\ pc = "mtu" => given.active_mtu >= given.elesize

(* ibv_query_qp is not tested, and the MTU check calls nothing. *)
CanFail == pc # "cap" /\ (pc = "mtu" => given.active_mtu < given.elesize)

Releases == <<"cq", "comp_channel", "mr", "pd", "port_attr", "device_attr_ex", "context">>

Call == /\ pc \in DOMAIN Uses /\ order = <<>> /\ UNCHANGED <<given, list, device>>

Misuse == /\ Call /\ ~(Uses[pc] \subseteq live)
          /\ ended' = "undefined" /\ UNCHANGED <<live, fields, pc, order, failed>>

Succeed == LET made == Creates \intersect {pc} IN
           /\ Call /\ Uses[pc] \subseteq live /\ CanSucceed
           /\ live' = live \union made /\ fields' = fields \union made
           /\ pc' = After[pc] /\ UNCHANGED <<order, failed, ended>>

Fail == /\ Call /\ Uses[pc] \subseteq live /\ CanFail
        /\ failed' = TRUE /\ order' = Releases
        /\ pc' = After[pc] /\ UNCHANGED <<live, fields, ended>>
-----------------------------------------------------------------------------
(* ~commu.  The members are not set to null.                               *)
Destroy == /\ pc = "built" /\ order = <<>>
           /\ order' = Releases /\ pc' = "destroyed"
           /\ UNCHANGED <<given, list, device, live, fields, failed, ended>>

Release == /\ order # <<>>
           /\ LET r == Head(order) IN
                IF r \notin fields
                   THEN order' = Tail(order) /\ UNCHANGED <<live, ended>>
                ELSE IF r \notin live
                   THEN ended' = "undefined" /\ UNCHANGED <<live, order>>
                ELSE IF \E o \in live : r \in Parents[o]
                   THEN ended' = "busy" /\ UNCHANGED <<live, order>>
                ELSE live' = live \ {r} /\ order' = Tail(order) /\ UNCHANGED ended
           /\ UNCHANGED <<given, list, device, fields, pc, failed>>

CommuNext == \/ ended = "no" /\ (GetDeviceList \/ OpenDevice \/ Misuse \/ Succeed \/ Fail
                                   \/ Destroy \/ Release)
             \/ ended # "no" /\ UNCHANGED commuVars

CommuSpec == CommuInit /\ [][CommuNext]_commuVars
-----------------------------------------------------------------------------
(* A commu that is built is complete: it has the device that was asked     *)
(* for, on a port that exists, with every object its threads will use.     *)
Built == pc = "built" /\ order = <<>> =>
    /\ ~failed /\ list = "freed" /\ live = DOMAIN Parents
    /\ given.dev_name \in {NoDevice, device}
    /\ given.ib_port \in 1 .. given.phys_port_cnt

(* Objects are released before those they depend on, so that nothing but   *)
(* the QP, which nobody destroys, is ever in the way of a release          *)
(* (commu.cpp:87-100); undefined behaviour needs a step that failed; and   *)
(* the destructor never returns, because the completion queue is busy.     *)
ReleaseSafe ==
    /\ Built
    /\ \A o \in live : Parents[o] \subseteq live
    /\ ended = "busy" => "qp" \in live
    /\ ended = "undefined" => failed
    /\ ~(pc = "destroyed" /\ order = <<>>)
=============================================================================

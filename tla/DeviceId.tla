------------------------------ MODULE DeviceId ------------------------------
(* The identity of the machine. device.id holds an id and a label; the     *)
(* agent (device.cpp) caches both for the life of its process, the          *)
(* dashboard (dashconfig.cpp) keeps the id it started with and reads the    *)
(* label anew. Either of them makes the file when it is missing or does not *)
(* hold an id. Both report to device_heartbeats (machines.cpp, cloud.cpp),  *)
(* one row per account and device id.                                       *)
EXTENDS Naturals, Sequences, SequencesExt

CONSTANTS DeviceIds,     \* the random ids that may be drawn
          NoId,          \* no id: the file is missing
          Garbled,       \* a first line that is not PC-XXXXXXXX
          DeviceLabels,  \* what a user may have named the machine
          Unnamed,       \* an empty second line
          MACHINES_MAX,  \* rows the agent's overview takes
          MaxStarts      \* bound: starts of the two programs

ASSUME DeviceAssumption ==
    NoId \notin DeviceIds /\ Garbled \notin DeviceIds /\ MACHINES_MAX \in Nat /\ MaxStarts \in Nat

VARIABLES deviceFile,  \* device.id
          agentDev,    \* device.cpp: g_cachedId, g_cachedLabel, g_cacheLoaded
          dashDev,     \* dashconfig.cpp: Config
          heartbeats,  \* device_heartbeats of the account, latest first
          overview,    \* the agent's overview: the machines and which is this one
          starts,      \* programs started so far
          apart        \* ghost: an id was lost, or drawn by both at once

diVars == <<deviceFile, agentDev, dashDev, heartbeats, overview, starts, apart>>

Device == [id : DeviceIds \cup {NoId}, label : DeviceLabels \cup {Unnamed}]
Stages == {"off", "drawn", "on"}
Off == [stage |-> "off", id |-> NoId, label |-> Unnamed]

HostNames == DeviceLabels \cup DeviceIds   \* an id stands for "Computer <suffix>"

\* One type invariant for the module's state.
diTypeOK ==
    /\ deviceFile \in [id : DeviceIds \cup {NoId, Garbled}, label : DeviceLabels \cup {Unnamed}]
    /\ \A p \in {agentDev, dashDev} :
         p.stage \in Stages /\ [id |-> p.id, label |-> p.label] \in Device
    /\ \A i \in 1..Len(heartbeats) :
         heartbeats[i].id \in DeviceIds /\ heartbeats[i].host \in HostNames
    /\ \A i \in 1..Len(overview) : overview[i].id \in DeviceIds /\ overview[i].self \in BOOLEAN
    /\ starts \in 0..MaxStarts /\ apart \in BOOLEAN

\* No file yet, or one whose first line is not an id.
diInit ==
    /\ deviceFile \in {[id |-> NoId, label |-> Unnamed]}
                      \cup {[id |-> Garbled, label |-> l] : l \in DeviceLabels}
    /\ agentDev = Off /\ dashDev = Off
    /\ heartbeats = <<>> /\ overview = <<>> /\ starts = 0 /\ apart = FALSE

-----------------------------------------------------------------------------
\* Reading the two lines: the id counts only when it is well formed, the
\* label is taken in any case.
readDeviceFile ==
    [deviceFile EXCEPT !.id = IF deviceFile.id \in DeviceIds THEN @ ELSE NoId]

\* A new id, drawn from the system's random source: no two draws are equal.
Drawn == {i \in DeviceIds : /\ deviceFile.id # i /\ agentDev.id # i /\ dashDev.id # i
                            /\ \A k \in 1..Len(heartbeats) : heartbeats[k].id # i}

\* loadOrCreate: the file's id, or one drawn here, which is still to be
\* written; the label is kept.
loadOrCreate(f) ==
    IF f.id # NoId THEN {[stage |-> "on", id |-> f.id, label |-> f.label]}
                   ELSE {[stage |-> "drawn", id |-> i, label |-> f.label] : i \in Drawn}

\* Config load(): the same, but a file without an id loses its label.
loadConfig(f) ==
    IF f.id # NoId THEN {[stage |-> "on", id |-> f.id, label |-> f.label]}
                   ELSE {[stage |-> "drawn", id |-> i, label |-> Unnamed] : i \in Drawn}

AgentReads ==
    /\ agentDev.stage = "off" /\ starts < MaxStarts
    /\ \E p \in loadOrCreate(readDeviceFile) : agentDev' = p
    /\ starts' = starts + 1
    /\ apart' = (apart \/ (agentDev'.stage = "drawn" /\ dashDev.stage = "drawn"))
    /\ UNCHANGED <<deviceFile, dashDev, heartbeats, overview>>

DashReads ==
    /\ dashDev.stage = "off" /\ starts < MaxStarts
    /\ \E p \in loadConfig(readDeviceFile) : dashDev' = p
    /\ starts' = starts + 1
    /\ apart' = (apart \/ (dashDev'.stage = "drawn" /\ agentDev.stage = "drawn"))
    /\ UNCHANGED <<deviceFile, agentDev, heartbeats, overview>>

\* As it would be if the id were only kept in memory.
writeDeviceFileNot(p, done) == deviceFile' = deviceFile /\ apart' = (apart \/ ~done)

\* writeDeviceFile: the file is replaced as a whole, or not at all.
writeDeviceFile(p, done) ==
    /\ deviceFile' = IF done THEN [id |-> p.id, label |-> p.label] ELSE deviceFile
    /\ apart' = (apart \/ ~done)

\* A failed write is not noticed: the process goes on with the id it drew.
AgentWrites ==
    /\ agentDev.stage = "drawn"
    /\ \E done \in BOOLEAN : writeDeviceFile(agentDev, done)
    /\ agentDev' = [agentDev EXCEPT !.stage = "on"]
    /\ UNCHANGED <<dashDev, heartbeats, overview, starts>>

DashWrites ==
    /\ dashDev.stage = "drawn"
    /\ \E done \in BOOLEAN : writeDeviceFile(dashDev, done)
    /\ dashDev' = [dashDev EXCEPT !.stage = "on"]
    /\ UNCHANGED <<agentDev, heartbeats, overview, starts>>

\* Either program ends, at any point of its start too.
AgentEnds == agentDev.stage # "off" /\ agentDev' = Off /\ overview' = <<>>
             /\ UNCHANGED <<deviceFile, dashDev, heartbeats, starts, apart>>

DashEnds == dashDev.stage # "off" /\ dashDev' = Off
            /\ UNCHANGED <<deviceFile, agentDev, heartbeats, overview, starts, apart>>

-----------------------------------------------------------------------------
\* The server's upsert on (user_id, device_id): a new row, or the one of this id
\* anew; the list is read by last_seen.
Upsert(id, host) ==
    LET row == <<[id |-> id, host |-> host]>>
    IN  \/ /\ \A k \in 1..Len(heartbeats) : heartbeats[k].id # id
           /\ heartbeats' = row \o heartbeats
        \/ \E k \in 1..Len(heartbeats) :
               heartbeats[k].id = id /\ heartbeats' = row \o RemoveAt(heartbeats, k)

\* device_get_label: the cached label, or one made of the id.
device_get_label == IF agentDev.label # Unnamed THEN agentDev.label ELSE agentDev.id

\* Config::displayLabel: the file's label if the file holds an id, else the
\* label of the start, else one made of the id.
displayLabel ==
    LET f == readDeviceFile IN
    IF f.id # NoId /\ f.label # Unnamed THEN f.label
    ELSE IF dashDev.label # Unnamed THEN dashDev.label ELSE dashDev.id

machines_push_heartbeat ==
    /\ agentDev.stage = "on"
    /\ Upsert(agentDev.id, device_get_label)
    /\ UNCHANGED <<deviceFile, agentDev, dashDev, overview, starts, apart>>

DashPushHeartbeat ==
    /\ dashDev.stage = "on"
    /\ Upsert(dashDev.id, displayLabel)
    /\ UNCHANGED <<deviceFile, agentDev, dashDev, overview, starts, apart>>

\* machines_list: the first rows of the answer; the overview marks this one.
machines_list ==
    LET rows == SubSeq(heartbeats, 1, IF Len(heartbeats) < MACHINES_MAX
                                      THEN Len(heartbeats) ELSE MACHINES_MAX)
    IN  [i \in 1..Len(rows) |-> [id |-> rows[i].id, self |-> rows[i].id = agentDev.id]]

ListMachines ==
    /\ agentDev.stage = "on" /\ overview' = machines_list
    /\ UNCHANGED <<deviceFile, agentDev, dashDev, heartbeats, starts, apart>>

diNext ==
    \/ AgentReads \/ AgentWrites \/ AgentEnds \/ DashReads \/ DashWrites \/ DashEnds
    \/ machines_push_heartbeat \/ DashPushHeartbeat \/ ListMachines

-----------------------------------------------------------------------------
\* Agent and dashboard are one machine to the account, over any number of
\* restarts, unless a write of device.id failed or both drew an id at once
\* (dashconfig.h: the one that runs first makes the file).
OneMachine == apart \/ Len(heartbeats) <= 1
=============================================================================

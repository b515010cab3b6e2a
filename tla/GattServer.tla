----------------------------- MODULE GattServer -----------------------------
(***************************************************************************)
(* The GATT server of Bluetooth on Linux (bluetooth/linux/gatt_server.c):  *)
(* services with characteristics with descriptors, the objects they export *)
(* on D-Bus, and the requests of BlueZ for those objects.                  *)
(*                                                                         *)
(* An id is the length of the list an element is appended to, and a path   *)
(* is made of ids: services <<s>>, characteristics <<s, c>>, descriptors   *)
(* <<s, c, d>>.  g_dbus_connection_register_object is external and refuses *)
(* a path that is exported.  An object in memory is named by a number.     *)
(***************************************************************************)
EXTENDS Naturals, Sequences, SequencesExt

CONSTANTS GsMaxLen,      \* bound of the length of a list
          GsMaxObjects,  \* bound of the number of objects that are made
          GsUnusual      \* "again": an object is added, or a list emptied, after
                         \*   the last object of that kind in a list was removed

ASSUME GsAssumption == GsMaxLen \in Nat /\ GsMaxObjects \in Nat

VARIABLES services,   \* hci.gatt_services: records [id, addr, registered, chars]
          exported,   \* paths of the objects on D-Bus
          node_info,  \* introspection data of each kind: "null", "ready", "freed"
          objects,    \* number of objects made
          request     \* the request being answered: the object it was passed to

gsvars == <<services, exported, node_info, objects, request>>

GsKinds == {"svc", "chr", "desc"}

NoRequest == [path |-> <<>>, addr |-> 0]

GsInit ==
    /\ services = <<>> /\ exported = {}
    /\ node_info = [k \in GsKinds |-> "null"]
    /\ objects = 0 /\ request = NoRequest

-----------------------------------------------------------------------------
(* Searches return a position, 0 if there is none *)

First(places) == IF places = {} THEN 0 ELSE Min(places)

ById(list, id) == First({i \in DOMAIN list : list[i].id = id})

ByPath(list, path) == First({i \in DOMAIN list : list[i].path = path})

\* The characteristic sid, cid: <<position of its service, its position>>.
FindChr(list, sid, cid) ==
    LET i == ById(list, sid)
        j == IF i = 0 THEN 0 ELSE ById(list[i].chars, cid)
    IN  IF j = 0 THEN <<0, 0>> ELSE <<i, j>>

FindChrByPath(list, path) ==
    LET i == First({n \in DOMAIN list : ByPath(list[n].chars, path) # 0})
    IN  IF i = 0 THEN <<0, 0>> ELSE <<i, ByPath(list[i].chars, path)>>

FindDescByPath(list, path) ==
    LET Holder(chars) == First({m \in DOMAIN chars : ByPath(chars[m].descs, path) # 0})
        i == First({n \in DOMAIN list : Holder(list[n].chars) # 0})
        j == IF i = 0 THEN 0 ELSE Holder(list[i].chars)
    IN  IF i = 0 THEN <<0, 0, 0>> ELSE <<i, j, ByPath(list[i].chars[j].descs, path)>>

Chr(list, p) == list[p[1]].chars[p[2]]

Desc(list, p) == list[p[1]].chars[p[2]].descs[p[3]]

-----------------------------------------------------------------------------
(* Building *)

NewObject == /\ request = NoRequest
             /\ objects < GsMaxObjects
             /\ objects' = objects + 1

Introspected(kind) ==
    /\ "again" \notin GsUnusual => node_info[kind] # "freed"
    /\ node_info' = [node_info EXCEPT ![kind] = IF @ = "null" THEN "ready" ELSE @]

\* A service is exported when it is registered.
AddService ==
    /\ Len(services) < GsMaxLen
    /\ NewObject
    /\ services' = Append(services, [id |-> Len(services), addr |-> objects + 1,
                                     registered |-> FALSE, chars |-> <<>>])
    /\ UNCHANGED <<exported, node_info, request>>

MutExports(path) == exported' = exported \cup {path}

Exports(path) == path \notin exported /\ exported' = exported \cup {path}

AddCharacteristic(sid) ==
    LET i == ById(services, sid)
        c == Len(services[i].chars)
    IN  /\ i # 0 /\ c < GsMaxLen
        /\ NewObject
        /\ Introspected("chr")
        /\ Exports(<<sid, c>>)
        /\ services' = [services EXCEPT ![i].chars = Append(@,
                           [id |-> c, path |-> <<sid, c>>, addr |-> objects + 1,
                            descs |-> <<>>])]
        /\ UNCHANGED request

AddDescriptor(sid, cid) ==
    LET p == FindChr(services, sid, cid)
        d == Len(Chr(services, p).descs)
    IN  /\ p # <<0, 0>> /\ d < GsMaxLen
        /\ NewObject
        /\ Introspected("desc")
        /\ Exports(<<sid, cid, d>>)
        /\ services' = [services EXCEPT ![p[1]].chars[p[2]].descs = Append(@,
                           [id |-> d, path |-> <<sid, cid, d>>, addr |-> objects + 1])]
        /\ UNCHANGED request

\* The last one of a list takes the introspection data with it.
Freed(kind, list) ==
    /\ "again" \notin GsUnusual => Len(list) > 1 \/ node_info[kind] # "freed"
    /\ node_info' = [node_info EXCEPT ![kind] = IF Len(list) = 1 THEN "freed" ELSE @]

\* The descriptors of a characteristic that is removed stay exported.
RemoveCharacteristic(sid, cid) ==
    LET p == FindChr(services, sid, cid)
    IN  /\ request = NoRequest /\ p # <<0, 0>>
        /\ exported' = exported \ {Chr(services, p).path}
        /\ services' = [services EXCEPT ![p[1]].chars = RemoveAt(@, p[2])]
        /\ Freed("chr", services[p[1]].chars)
        /\ UNCHANGED <<objects, request>>

RemoveDescriptor(sid, cid, did) ==
    LET p == FindChr(services, sid, cid)
        k == ById(Chr(services, p).descs, did)
    IN  /\ request = NoRequest /\ p # <<0, 0>> /\ k # 0
        /\ exported' = exported \ {Chr(services, p).descs[k].path}
        /\ services' = [services EXCEPT ![p[1]].chars[p[2]].descs = RemoveAt(@, k)]
        /\ Freed("desc", Chr(services, p).descs)
        /\ UNCHANGED <<objects, request>>

RegisterService(sid) ==
    LET i == ById(services, sid)
    IN  /\ request = NoRequest /\ i # 0
        /\ Introspected("svc")
        /\ Exports(<<sid>>)
        /\ services' = [services EXCEPT ![i].registered = TRUE]
        /\ UNCHANGED <<objects, request>>

\* BlueZ refuses it for a path that was not registered.  What the service
\* contains stays exported.
UnregisterService(sid) ==
    LET i == ById(services, sid)
    IN  /\ request = NoRequest /\ i # 0
        /\ <<sid>> \in exported
        /\ services' = RemoveAt(services, i)
        /\ exported' = IF services[i].registered THEN exported \ {<<sid>>} ELSE exported
        /\ Freed("svc", services)
        /\ UNCHANGED <<objects, request>>

-----------------------------------------------------------------------------
(* Requests *)

\* BlueZ calls a method of an exported object: the object is searched by its
\* path and its callback called, or the default answer given.
MethodCall(path) ==
    /\ request = NoRequest
    /\ path \in exported /\ Len(path) > 1
    /\ LET p == FindChrByPath(services, path)
           q == FindDescByPath(services, path)
       IN  request' = CASE Len(path) = 2 /\ p # <<0, 0>> ->
                             [path |-> path, addr |-> Chr(services, p).addr]
                        [] Len(path) = 3 /\ q # <<0, 0, 0>> ->
                             [path |-> path, addr |-> Desc(services, q).addr]
                        [] OTHER -> NoRequest
    /\ UNCHANGED <<services, exported, node_info, objects>>

\* The callback answers by bt_gatt_req_set_value or bt_gatt_req_set_result, while
\* it runs: the handle is a variable of the caller.
RequestAnswered ==
    /\ request # NoRequest
    /\ request' = NoRequest
    /\ UNCHANGED <<services, exported, node_info, objects>>

-----------------------------------------------------------------------------

GsIds == 0 .. GsMaxLen - 1

GsNext ==
    \/ AddService \/ RequestAnswered
    \/ \E s \in GsIds :
          \/ AddCharacteristic(s) \/ RegisterService(s) \/ UnregisterService(s)
          \/ \E c \in GsIds :
                \/ AddDescriptor(s, c) \/ RemoveCharacteristic(s, c)
                \/ \E d \in GsIds : RemoveDescriptor(s, c, d)
    \/ \E path \in exported : MethodCall(path)

\* The characteristic or descriptor that BlueZ reaches by a path is the one the
\* application set up under the ids in that path, although ids are used again
\* after removals and a service can get the id of another one: no two listed
\* objects share a path.
PathsFollowIds ==
    /\ request # NoRequest =>
          LET p == FindChr(services, request.path[1], request.path[2])
              k == IF Len(request.path) = 3 /\ p # <<0, 0>>
                   THEN ById(Chr(services, p).descs, request.path[3]) ELSE 0
          IN  /\ p # <<0, 0>>
              /\ request.addr = IF Len(request.path) = 2 THEN Chr(services, p).addr
                                ELSE Chr(services, p).descs[k].addr
    /\ \A i \in DOMAIN services : \A j \in DOMAIN services[i].chars :
          services[i].chars[j].path \in exported
=============================================================================

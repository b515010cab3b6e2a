------------------------------ MODULE BtRemote ------------------------------
(***************************************************************************)
(* What the Bluetooth modules of Linux keep of the objects of remote       *)
(* devices: the network connection (bluetooth/linux/pan.c), the            *)
(* characteristics that notify (gatt_client.c, core.c) and the items of a  *)
(* media player (avrcp.c).  The three share nothing, each has its own      *)
(* next-state relation.                                                    *)
(*                                                                         *)
(* BlueZ and the devices are external.  Calls are synchronous, except      *)
(* those that start and stop notifications, whose result nobody hears.     *)
(***************************************************************************)
EXTENDS Naturals, Sequences, FiniteSets, SequencesExt

CONSTANTS PnDevs,         \* devices with a network
          GnChars,        \* characteristics: device, service and UUID
          AvPlayers,      \* devices with a player, in BlueZ's order
          AvFolders,      \* what a player's folders hold: sequences of items
          AvMax,          \* bound of the number of items kept
          RmUnusual       \* "reuse": an address string that connect has cut is used again,
                          \* "refused": a device refuses a connection or a notification,
                          \* "failing": a disconnect fails,
                          \* "lost": a device goes by itself,
                          \* "same": notifications of one UUID from two places,
                          \* "keeps": a list of items is used after the next call,
                          \* "elsewhere": a player changes its folder by itself

Nowhere == "nowhere"

(* A characteristic is known by its device, its service and its UUID;       *)
(* folders hold sequences of items, the first one is the playlist.          *)
ASSUME RmAssumption ==
    /\ \A c \in GnChars : c = [dev |-> c.dev, srv |-> c.srv, uuid |-> c.uuid]
    /\ AvPlayers \in Seq(ToSet(AvPlayers))
    /\ "playlist" \in DOMAIN AvFolders
    /\ \A f \in DOMAIN AvFolders : AvFolders[f] \in Seq(ToSet(AvFolders[f]))

-----------------------------------------------------------------------------
(* The network: one path, which says whether there is a connection.         *)

VARIABLES network_path,   \* the device _network_path is made of
          pn_cut,         \* devices whose address string was cut by strtok
          pn_bluez,       \* BlueZ: the connected device
          pn_refused      \* a call was refused without a reason

pnvars == <<network_path, pn_cut, pn_bluez, pn_refused>>

PnInit == network_path = Nowhere /\ pn_cut = {} /\ pn_bluez = Nowhere /\ pn_refused = FALSE

_is_network_path_valid == network_path # Nowhere

(* An address is six parts; strtok leaves the first one of the caller's     *)
(* string.                                                                  *)
_pan_parameter_check(d, fresh) == fresh \/ d \notin pn_cut

_generate_device_path(d, fresh) ==
    /\ network_path' = d
    /\ pn_cut' = IF fresh THEN pn_cut ELSE pn_cut \cup {d}

(* fresh: the string is one for this call.  The path stays if BlueZ fails.  *)
bt_pan_connect(d, fresh, ok) ==
    /\ "reuse" \in RmUnusual \/ _pan_parameter_check(d, fresh)
    /\ "refused" \in RmUnusual \/ ok
    /\ IF _is_network_path_valid \/ ~ _pan_parameter_check(d, fresh)
       THEN /\ pn_refused' = (pn_refused \/ pn_bluez = Nowhere)
            /\ UNCHANGED <<network_path, pn_cut, pn_bluez>>
       ELSE /\ _generate_device_path(d, fresh)
            /\ pn_bluez' = IF ok THEN d ELSE pn_bluez
            /\ UNCHANGED pn_refused

(* The path is cleared whatever BlueZ says.                                 *)
bt_pan_disconnect(ok) ==
    /\ _is_network_path_valid
    /\ "failing" \in RmUnusual \/ ok
    /\ network_path' = Nowhere
    /\ pn_bluez' = IF ok THEN Nowhere ELSE pn_bluez
    /\ UNCHANGED <<pn_cut, pn_refused>>

NetworkIsLost ==
    /\ "lost" \in RmUnusual \/ pn_bluez = Nowhere
    /\ pn_bluez' = Nowhere
    /\ UNCHANGED <<network_path, pn_cut, pn_refused>>

PnNext ==
    \/ \E d \in PnDevs, fresh, ok \in BOOLEAN : bt_pan_connect(d, fresh, ok)
    \/ \E ok \in BOOLEAN : bt_pan_disconnect(ok)
    \/ NetworkIsLost

(* The device whose path is kept is the one that is connected, so that it   *)
(* can be disconnected, and a connect is only refused while there is one.   *)
NetworkIsKnown == network_path = pn_bluez /\ ~ pn_refused

-----------------------------------------------------------------------------
(* Notifications.                                                           *)

VARIABLES gatt_clients,   \* hci.gatt_clients: how many it has of each characteristic
          gn_objects,     \* BlueZ: characteristics it has objects of
          gn_calls,       \* StartNotify and StopNotify that BlueZ has not handled
          gn_bluez,       \* BlueZ: characteristics that notify
          gn_app,         \* those the application has asked for
          gn_missed       \* a notification did not get through, or was not wanted

gnvars == <<gatt_clients, gn_objects, gn_calls, gn_bluez, gn_app, gn_missed>>

GnInit ==
    /\ gatt_clients = [c \in GnChars |-> 0] /\ gn_objects = GnChars /\ gn_calls = <<>> /\ gn_bluez = {}
    /\ gn_app = {} /\ gn_missed = FALSE

(* The objects with this UUID in this service of this device.               *)
_get_gatt_path(c) == {o \in gn_objects : o.dev = c.dev /\ o.srv = c.srv /\ o.uuid = c.uuid}

(* No other characteristic with this UUID is asked for.                     *)
OnlyOne(c) == \A e \in gn_app \ {c} : e.uuid # c.uuid

bt_gatt_start_notify(c) ==
    /\ _get_gatt_path(c) # {} /\ gatt_clients[c] < 2 /\ Len(gn_calls) < 2
    /\ "same" \in RmUnusual \/ OnlyOne(c)
    /\ gatt_clients' = [gatt_clients EXCEPT ![c] = @ + 1]
    /\ gn_calls' = Append(gn_calls, [op |-> "StartNotify", char |-> c])
    /\ gn_app' = gn_app \cup {c}
    /\ UNCHANGED <<gn_objects, gn_bluez, gn_missed>>

(* Every client with the UUID leaves the list.                              *)
_remove_notify(c) == [e \in GnChars |-> IF e.uuid = c.uuid THEN 0 ELSE gatt_clients[e]]

bt_gatt_stop_notify(c) ==
    /\ _get_gatt_path(c) # {} /\ Len(gn_calls) < 2
    /\ "same" \in RmUnusual \/ OnlyOne(c)
    /\ gn_calls' = Append(gn_calls, [op |-> "StopNotify", char |-> c])
    /\ gatt_clients' = _remove_notify(c)
    /\ gn_app' = gn_app \ {c}
    /\ UNCHANGED <<gn_objects, gn_bluez, gn_missed>>

BluezHandles(ok) ==
    /\ gn_calls # <<>>
    /\ "refused" \in RmUnusual \/ ok
    /\ LET call == Head(gn_calls) IN
       gn_bluez' = IF call.op = "StopNotify" \/ ~ ok THEN gn_bluez \ {call.char}
                   ELSE gn_bluez \cup ({call.char} \cap gn_objects)
    /\ gn_calls' = Tail(gn_calls)
    /\ UNCHANGED <<gatt_clients, gn_objects, gn_app, gn_missed>>

Listed(c) == gatt_clients[c] > 0

(* A value goes to the first client with the path.                          *)
_gatt_properties_changed(c) ==
    /\ c \in gn_bluez
    /\ gn_missed' = (gn_missed \/ (c \in gn_app /\ ~ Listed(c)))
    /\ UNCHANGED <<gatt_clients, gn_objects, gn_calls, gn_bluez, gn_app>>

(* A device goes and comes: its objects are made anew and notify nobody.    *)
DeviceReturns(d) ==
    /\ "lost" \in RmUnusual \/ \A c \in gn_app \cup gn_bluez : c.dev # d
    /\ gn_bluez' = {c \in gn_bluez : c.dev # d}
    /\ gn_objects' = IF \E c \in gn_objects : c.dev = d THEN {c \in gn_objects : c.dev # d}
                     ELSE gn_objects \cup {c \in GnChars : c.dev = d}
    /\ UNCHANGED <<gatt_clients, gn_calls, gn_app, gn_missed>>

GnNext ==
    \/ \E c \in GnChars : bt_gatt_start_notify(c) \/ bt_gatt_stop_notify(c) \/ _gatt_properties_changed(c)
    \/ \E ok \in BOOLEAN : BluezHandles(ok)
    \/ \E c \in GnChars : DeviceReturns(c.dev)

(* Once BlueZ has handled the calls, the characteristics that notify, those *)
(* that are listed and those the application asked for are the same, and no *)
(* value was dropped.                                                       *)
NotificationsAreRouted ==
    /\ ~ gn_missed
    /\ gn_calls = <<>> => gn_bluez = gn_app /\ gn_app = {c \in GnChars : Listed(c)}

-----------------------------------------------------------------------------
(* The player: items are kept under the indices of the latest listing.      *)

VARIABLES items,          \* the paths, each in a block of its own
          is_latest_item,
          av_blocks,      \* blocks that are not freed
          av_list,        \* the list the application holds, of paths in the same blocks
          av_last,        \* the latest block
          av_connected,   \* BlueZ: players that are connected
          av_folder,      \* the folder each player shows
          av_played       \* the item the player was told to play, and the one it should be

avvars == <<items, is_latest_item, av_blocks, av_list, av_last, av_connected, av_folder, av_played>>

AvInit ==
    /\ items = <<>> /\ is_latest_item = FALSE /\ av_blocks = {} /\ av_list = <<>> /\ av_last = 0
    /\ av_connected \in SUBSET ToSet(AvPlayers)
    /\ av_folder = [p \in ToSet(AvPlayers) |-> "playlist"]
    /\ av_played = <<Nowhere, Nowhere>>

(* The first player that is connected.                                      *)
_get_control_path == SelectInSeq(AvPlayers, LAMBDA p : p \in av_connected)

_get_player_path == IF _get_control_path = 0 THEN Nowhere ELSE AvPlayers[_get_control_path]

FolderListing == AvFolders[av_folder[_get_player_path]]

_get_item_from_index(index) ==
    IF index \in DOMAIN items /\ is_latest_item THEN items[index].path ELSE Nowhere

FreeItems == items' = <<>> /\ av_blocks' = av_blocks \ {items[i].block : i \in DOMAIN items}

_avrcp_deinit ==
    /\ av_list = <<>> \/ "keeps" \in RmUnusual
    /\ FreeItems
    /\ UNCHANGED <<is_latest_item, av_list, av_last, av_connected, av_folder, av_played>>

(* Old paths are freed, new ones are shared with the application's list.    *)
_parse_list(found) ==
    LET new == [i \in DOMAIN found |-> [path |-> found[i], block |-> av_last + i]] IN
    /\ items' = new /\ av_list' = new
    /\ av_last' = av_last + Len(found)
    /\ av_blocks' = (av_blocks \ {items[i].block : i \in DOMAIN items}) \cup {new[i].block : i \in DOMAIN new}

(* From start to the end, as the player's folder is.                        *)
bt_avrcp_controller_list_item(start) ==
    /\ _get_player_path # Nowhere
    /\ av_list = <<>> \/ "keeps" \in RmUnusual
    /\ av_last + Len(FolderListing) <= AvMax
    /\ _parse_list(SubSeq(FolderListing, start, Len(FolderListing)))
    /\ is_latest_item' = TRUE
    /\ UNCHANGED <<av_connected, av_folder, av_played>>

(* The paths stay with the items.                                           *)
bt_avrcp_controller_free_items ==
    /\ av_list # <<>>
    /\ av_list' = <<>>
    /\ UNCHANGED <<items, is_latest_item, av_blocks, av_last, av_connected, av_folder, av_played>>

(* Whether items are forgotten with the folder they are of.                 *)
MutForgetsFolder == UNCHANGED <<items, is_latest_item, av_blocks>>

ForgetsFolder == is_latest_item' = FALSE /\ FreeItems

bt_avrcp_controller_change_folder(index) ==
    LET folder == IF index = 0 THEN "playlist" ELSE _get_item_from_index(index) IN
    /\ folder \in DOMAIN AvFolders /\ _get_player_path # Nowhere
    /\ av_list = <<>> \/ "keeps" \in RmUnusual
    /\ av_folder' = [av_folder EXCEPT ![_get_player_path] = folder]
    /\ ForgetsFolder
    /\ UNCHANGED <<av_list, av_last, av_connected, av_played>>

(* The application chooses by the list it holds.                            *)
bt_avrcp_controller_play_item(index) ==
    /\ index \in DOMAIN av_list
    /\ _get_item_from_index(index) # Nowhere
    /\ av_played' = <<_get_item_from_index(index), av_list[index].path>>
    /\ UNCHANGED <<items, is_latest_item, av_blocks, av_list, av_last, av_connected, av_folder>>

(* Players come, go and change their folder.                                *)
PlayersChange ==
    /\ items = <<>> \/ "elsewhere" \in RmUnusual
    /\ \/ av_connected' \in SUBSET ToSet(AvPlayers) /\ UNCHANGED av_folder
       \/ /\ \E p \in ToSet(AvPlayers), folder \in DOMAIN AvFolders :
                av_folder' = [av_folder EXCEPT ![p] = folder]
          /\ UNCHANGED av_connected
    /\ UNCHANGED <<items, is_latest_item, av_blocks, av_list, av_last, av_played>>

AvNext ==
    \/ _avrcp_deinit
    \/ \E start \in {1, 2} : bt_avrcp_controller_list_item(start)
    \/ bt_avrcp_controller_free_items
    \/ \E index \in 0 .. 2 : bt_avrcp_controller_change_folder(index)
    \/ \E index \in 1 .. 2 : bt_avrcp_controller_play_item(index)
    \/ PlayersChange

(* Items that can be chosen by their index are items of the folder the      *)
(* player shows; the list the application holds names the same ones, in     *)
(* memory that is not freed, and what is played is what it chose.           *)
ItemsAreCurrent ==
    /\ items # <<>> /\ is_latest_item =>
       /\ _get_player_path # Nowhere
       /\ \A i \in DOMAIN items : Contains(FolderListing, items[i].path)
    /\ \A i \in DOMAIN av_list : av_list[i].block \in av_blocks
    /\ av_played[1] = av_played[2]
=============================================================================

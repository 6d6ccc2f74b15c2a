-------------------------------- MODULE Devices --------------------------------
(***************************************************************************)
(* The input devices of the settings and the notice that the chosen one is *)
(* not connected (whspr-app: devices.rs, app.rs, hub/settings/update.rs,   *)
(* worker/capture_plan.rs; whspr-audio: device.rs).  The list is read at   *)
(* boot; while hot-plugging is on, a watcher reads the devices again and    *)
(* again and sends the differences.  A capture reads them for itself.      *)
(***************************************************************************)
EXTENDS Naturals, Sequences

CONSTANTS
  Devices,     (* input devices by name                                      *)
  NoDevice,
  OtherNotice, (* a notice that is not about a device                        *)
  ChangeSlots  (* changes that may be under way (hotplug_watch: channel(4))  *)

ASSUME DevicesAssumption ==
  /\ NoDevice \notin Devices /\ OtherNotice \notin Devices \cup {NoDevice}
  /\ ChangeSlots \in Nat

VARIABLES
  plugged,      (* the devices there are                                     *)
  inputDevices, (* State::input_devices, as a set                            *)
  deviceHotplug,(* [device].device_hotplug                                   *)
  watching,     (* the subscription's stream runs                            *)
  known,        (* DeviceWatcher::known                                      *)
  changes,      (* DeviceChange values on their way to the app               *)
  inputDevice,  (* [device].input_device                                     *)
  notice,       (* State::notice: the device that is not connected           *)
  raised,       (* the worker's notice on its way to the app                 *)
  missed,       (* history: the watcher began with other devices than listed *)
  stray         (* history: the notice went up, or stayed, for a device the  *)
                (* list had as connected                                     *)

devicesVars == <<plugged, inputDevices, deviceHotplug, watching, known, changes,
                 inputDevice, notice, raised, missed, stray>>

\* input_device_names: a failing enumeration gives an empty list.
InputDeviceNames == {plugged, {}}

DiffDeviceNames(before, after) == [added |-> after \ before, removed |-> before \ after]

\* mutant: a device that comes back is not listed again
ApplyDeviceChangeRemoving(devices, change) == devices \ change.removed

ApplyDeviceChange(devices, change) == (devices \ change.removed) \cup change.added

\* mutant: the fallback notice stays when its device comes back
HotplugNoticeStays(change, current) ==
  IF inputDevice \in change.removed THEN inputDevice ELSE current

\* The notice after a change, by hotplug_notice.
HotplugNotice(change, current) ==
  IF inputDevice \in change.removed THEN inputDevice
  ELSE IF inputDevice \in change.added /\ current = inputDevice THEN NoDevice
  ELSE current

\* app.rs, boot.
DevicesInit ==
  /\ plugged \in SUBSET Devices /\ inputDevices \in InputDeviceNames
  /\ deviceHotplug \in BOOLEAN /\ watching = FALSE /\ known = {} /\ changes = <<>>
  /\ inputDevice \in Devices \cup {NoDevice}
  /\ notice = NoDevice /\ raised = NoDevice /\ missed = FALSE /\ stray = FALSE

Replug ==
  /\ \E device \in Devices : plugged' \in {plugged \cup {device}, plugged \ {device}}
  /\ UNCHANGED <<inputDevices, deviceHotplug, watching, known, changes, inputDevice,
                 notice, raised, missed, stray>>

\* The list once the changes under way are applied, one after the other: a device is
\* in it that is listed or added (by change k), and not removed by a later change.
Listed ==
  {device \in Devices : \E k \in 0..Len(changes) :
     /\ IF k = 0 THEN device \in inputDevices ELSE device \in changes[k].added
     /\ \A later \in k + 1..Len(changes) : device \notin changes[later].removed}

\* DeviceWatcher::new, some time after the subscription was asked for.
StartWatcher ==
  /\ deviceHotplug /\ ~watching /\ watching' = TRUE
  /\ known' \in InputDeviceNames
  /\ missed' = (known' # Listed)
  /\ UNCHANGED <<plugged, inputDevices, deviceHotplug, changes, inputDevice, notice, raised, stray>>

\* mutant: sends whether there is room or not
PollEagerly ==
  /\ watching
  /\ known' \in InputDeviceNames \ {known}
  /\ changes' = Append(changes, DiffDeviceNames(known, known'))
  /\ UNCHANGED <<plugged, inputDevices, deviceHotplug, watching, inputDevice, notice, raised,
                 missed, stray>>

\* watch_devices and DeviceWatcher::poll; the send waits for room.
Poll ==
  /\ watching /\ Len(changes) < ChangeSlots
  /\ known' \in InputDeviceNames \ {known}
  /\ changes' = Append(changes, DiffDeviceNames(known, known'))
  /\ UNCHANGED <<plugged, inputDevices, deviceHotplug, watching, inputDevice, notice, raised,
                 missed, stray>>

ShowNotice(new, isStray) == notice' = new /\ stray' = isStray

\* InputDevicesChanged.
InputDevicesChanged ==
  /\ changes # <<>> /\ changes' = Tail(changes)
  /\ inputDevices' = ApplyDeviceChange(inputDevices, Head(changes))
  /\ LET new == HotplugNotice(Head(changes), notice)
     IN  ShowNotice(new, /\ new = notice /\ inputDevice \notin Head(changes).removed
                         /\ stray \/ (notice \in Head(changes).added /\ notice # inputDevice))
  /\ UNCHANGED <<plugged, deviceHotplug, watching, known, inputDevice, raised, missed>>

\* DeviceHotplugToggled: off drops the stream, and what it holds that the app does
\* not have yet.
DeviceHotplugToggled ==
  /\ deviceHotplug' = ~deviceHotplug
  /\ watching' = FALSE
  /\ \E n \in 0..Len(changes) :
       changes' = SubSeq(changes, 1, IF deviceHotplug THEN n ELSE Len(changes))
  /\ UNCHANGED <<plugged, inputDevices, known, inputDevice, notice, raised, missed, stray>>

\* DeviceSelected, of a device the picker offers: what the source toggles let
\* through of the list, and always the configured one.
DeviceSelected(device) ==
  /\ device \in inputDevices \cup {inputDevice}
  /\ inputDevice' = device
  /\ UNCHANGED <<plugged, inputDevices, deviceHotplug, watching, known, changes, notice, raised,
                 missed, stray>>

\* resolve_device at the start of a capture: an empty list is a failed enumeration,
\* and raises no notice.
CaptureMissesDevice ==
  /\ raised = NoDevice /\ inputDevice # NoDevice
  /\ \E names \in InputDeviceNames : names # {} /\ inputDevice \notin names
  /\ raised' = inputDevice
  /\ UNCHANGED <<plugged, inputDevices, deviceHotplug, watching, known, changes, inputDevice,
                 notice, missed, stray>>

\* WorkerEvent::Notice.  Other notices come from the worker, the clipboard and the history.
NoticeTaken ==
  /\ \/ raised # NoDevice /\ raised' = NoDevice /\ ShowNotice(raised, raised \in inputDevices)
     \/ UNCHANGED raised /\ ShowNotice(OtherNotice, FALSE)
  /\ UNCHANGED <<plugged, inputDevices, deviceHotplug, watching, known, changes, inputDevice, missed>>

DismissNotice ==
  /\ ShowNotice(NoDevice, FALSE)
  /\ UNCHANGED <<plugged, inputDevices, deviceHotplug, watching, known, changes, inputDevice,
                 raised, missed>>

DevicesNext ==
  \/ Replug \/ StartWatcher \/ Poll \/ InputDevicesChanged \/ DeviceHotplugToggled
  \/ \E device \in Devices : DeviceSelected(device)
  \/ CaptureMissesDevice \/ NoticeTaken \/ DismissNotice

DevicesSpec == DevicesInit /\ [][DevicesNext]_devicesVars

-----------------------------------------------------------------------------
DeviceChange == [added : SUBSET Devices, removed : SUBSET Devices]

DevicesTypeOK ==
  /\ plugged \subseteq Devices /\ inputDevices \subseteq Devices /\ known \subseteq Devices
  /\ deviceHotplug \in BOOLEAN /\ watching \in BOOLEAN
  /\ missed \in BOOLEAN /\ stray \in BOOLEAN
  /\ changes \in Seq(DeviceChange) /\ Len(changes) \in 0..ChangeSlots
  /\ inputDevice \in Devices \cup {NoDevice} /\ raised \in Devices \cup {NoDevice}
  /\ notice \in Devices \cup {NoDevice, OtherNotice}

\* While the watcher runs, the list and the changes under way amount to what the
\* watcher saw last, unless it began with other devices than were listed: whatever
\* fails to enumerate in between, and though an earlier watcher's changes were dropped.
ListFits == watching /\ ~missed => Listed = known

\* The notice that the chosen microphone is not connected is up only while the list
\* has it as disconnected, unless it came late (a capture found the device gone
\* between two polls, or before its return was reported) or the device came back
\* while another one was chosen.
NoticeFits == notice = inputDevice /\ ~stray => inputDevice \notin inputDevices

\* devices.rs: the list is kept current, and a returned device clears its notice.
DevicesFit == ListFits /\ NoticeFits
=============================================================================

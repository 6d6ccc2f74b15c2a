-------------------------------- MODULE MC_Hub --------------------------------
(***************************************************************************)
(* One run for the components of the Hub, the command line and the          *)
(* installer, and for the libraries they call.  They share no state, so a   *)
(* behaviour of theirs together is an interleaving of behaviours of each,   *)
(* and a property of one holds together if it holds alone: `part` picks     *)
(* the one that moves, and the others rest.                                 *)
(***************************************************************************)
EXTENDS Speakers, ModelStore, ModelSearch, HfLogin, WorkerBoot, Delivery,
        Devices, MC_Rolling, MC_Normalizer, Installer, Uninstall, LocalRefiner, MC_Clip

VARIABLE part

Parts == {"speakers", "store", "search", "login", "boot", "delivery", "devices",
          "rolling", "normalizer", "installer", "uninstall", "refiner", "clip"}

\* Each part begins in any of its initial states where it moves, in one where it rests.
HubInit ==
  /\ part \in Parts
  /\ part # "speakers" => speakersFile = EmptyDb
  /\ part # "devices" =>
       plugged = {} /\ inputDevices = {} /\ deviceHotplug = FALSE /\ inputDevice = NoDevice
  /\ part # "boot" => config = BootDefaults /\ openaiKey = "none"
  /\ part # "rolling" => words = <<>>
  /\ part # "normalizer" =>
       speech = Silence /\ digits = TRUE /\ formulas = TRUE
  /\ part # "refiner" => onDisk = TRUE
  /\ part # "clip" =>
       /\ source = "file" /\ rate = 1 /\ recording = Stretch(1, 4)
  /\ SpeakersInit /\ StoreInit /\ SearchInit /\ HfLoginInit /\ BootInit /\ DeliveryInit /\ DevicesInit
  /\ RollingInit /\ NormalizerInit /\ InstallerInit /\ UninstallInit
  /\ RefinerInit /\ ClipInit

HubNext ==
  \/ /\ part = "speakers" /\ SpeakersNext
     /\ UNCHANGED <<part, storeVars, searchVars, hfLoginVars, bootVars, deliveryVars,
                    devicesVars, rollingVars, normalizerVars, installerVars, uninstallVars,
                    refinerVars, clipVars>>
  \/ /\ part = "store" /\ StoreNext
     /\ UNCHANGED <<part, speakersVars, searchVars, hfLoginVars, bootVars, deliveryVars,
                    devicesVars, rollingVars, normalizerVars, installerVars, uninstallVars,
                    refinerVars, clipVars>>
  \/ /\ part = "search" /\ SearchNext
     /\ UNCHANGED <<part, speakersVars, storeVars, hfLoginVars, bootVars, deliveryVars,
                    devicesVars, rollingVars, normalizerVars, installerVars, uninstallVars,
                    refinerVars, clipVars>>
  \/ /\ part = "login" /\ HfLoginNext
     /\ UNCHANGED <<part, speakersVars, storeVars, searchVars, bootVars, deliveryVars,
                    devicesVars, rollingVars, normalizerVars, installerVars, uninstallVars,
                    refinerVars, clipVars>>
  \/ /\ part = "boot" /\ BootNext
     /\ UNCHANGED <<part, speakersVars, storeVars, searchVars, hfLoginVars, deliveryVars,
                    devicesVars, rollingVars, normalizerVars, installerVars, uninstallVars,
                    refinerVars, clipVars>>
  \/ /\ part = "delivery" /\ DeliveryNext
     /\ UNCHANGED <<part, speakersVars, storeVars, searchVars, hfLoginVars, bootVars,
                    devicesVars, rollingVars, normalizerVars, installerVars, uninstallVars,
                    refinerVars, clipVars>>
  \/ /\ part = "devices" /\ DevicesNext
     /\ UNCHANGED <<part, speakersVars, storeVars, searchVars, hfLoginVars, bootVars,
                    deliveryVars, rollingVars, normalizerVars, installerVars, uninstallVars,
                    refinerVars, clipVars>>
  \/ /\ part = "rolling" /\ RollingNext
     /\ UNCHANGED <<part, speakersVars, storeVars, searchVars, hfLoginVars, bootVars,
                    deliveryVars, devicesVars, normalizerVars, installerVars, uninstallVars,
                    refinerVars, clipVars>>
  \/ /\ part = "normalizer" /\ NormalizerNext
     /\ UNCHANGED <<part, speakersVars, storeVars, searchVars, hfLoginVars, bootVars,
                    deliveryVars, devicesVars, rollingVars, installerVars, uninstallVars,
                    refinerVars, clipVars>>
  \/ /\ part = "installer" /\ InstallerNext
     /\ UNCHANGED <<part, speakersVars, storeVars, searchVars, hfLoginVars, bootVars,
                    deliveryVars, devicesVars, rollingVars, normalizerVars, uninstallVars,
                    refinerVars, clipVars>>
  \/ /\ part = "uninstall" /\ UninstallNext
     /\ UNCHANGED <<part, speakersVars, storeVars, searchVars, hfLoginVars, bootVars,
                    deliveryVars, devicesVars, rollingVars, normalizerVars, installerVars,
                    refinerVars, clipVars>>
  \/ /\ part = "refiner" /\ RefinerNext
     /\ UNCHANGED <<part, speakersVars, storeVars, searchVars, hfLoginVars, bootVars,
                    deliveryVars, devicesVars, rollingVars, normalizerVars, installerVars,
                    uninstallVars, clipVars>>
  \/ /\ part = "clip" /\ ClipNext
     /\ UNCHANGED <<part, speakersVars, storeVars, searchVars, hfLoginVars, bootVars,
                    deliveryVars, devicesVars, rollingVars, normalizerVars, installerVars,
                    uninstallVars, refinerVars>>

hubVars == <<part, speakersVars, storeVars, searchVars, hfLoginVars, bootVars, deliveryVars,
             devicesVars, rollingVars, normalizerVars, installerVars, uninstallVars,
             refinerVars, clipVars>>

HubSpec == HubInit /\ [][HubNext]_hubVars

-----------------------------------------------------------------------------
\* Every variable of every part is of its type, the resting ones' as they were in HubInit.
HubTypeOK ==
  /\ part \in Parts
  /\ part = "speakers" => SpeakersTypeOK
  /\ part = "store" => StoreTypeOK
  /\ part = "search" => SearchTypeOK
  /\ part = "login" => HfLoginTypeOK
  /\ part = "boot" => BootTypeOK
  /\ part = "delivery" => DeliveryTypeOK
  /\ part = "devices" => DevicesTypeOK
  /\ part = "rolling" => RollingTypeOK
  /\ part = "normalizer" => NormalizerTypeOK
  /\ part = "installer" => InstallerTypeOK
  /\ part = "uninstall" => UninstallTypeOK
  /\ part = "refiner" => RefinerTypeOK
  /\ part = "clip" => ClipTypeOK

\* The speaker database: a voice's centroid is the mean of its turns (SpeakerDb), and
\* what the user enrolled, named and moved stays (Speakers).
SpeakersFit == CentroidIsMean /\ SpeakersKept

\* The Models tab: one operation at a time runs on the model directories, the models
\* listed are those on the disk (ModelStore), and the files of the search are those
\* of the repository they are shown under (ModelSearch); a login goes on only with the
\* code of its own tab (HfLogin).
ModelsTabFits == OneOperation /\ ListIsDisk /\ FilesOfRepo /\ CodeIsItsOwn

\* What the Settings show is what is in force: of the devices (Devices), and of what
\* dictation goes by (WorkerBoot).
SettingsFit == DevicesFit /\ SettingsApply

\* What the installer shows as installed is there (Installer), what the setting says
\* of launch at login is so, and an uninstall leaves nothing behind (Uninstall).
SetupFits == InstalledWhole /\ UninstallFits

\* The recognizer gets what was said, and the times it gives are those of the recording
\* less one displacement (Clip).
ClipFits == SpeechReachesRecognizer /\ TimesKeepApart

\* After a paste the clipboard is as it was, and what is reported as delivered was
\* delivered, once (Delivery).
DeliveryFits == ClipboardKept /\ DeliveredOnce
=============================================================================

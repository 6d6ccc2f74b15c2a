-------------------------- MODULE MC_CaptureSession --------------------------
(* The settings the runs of CaptureSession let the user save. *)
EXTENDS CaptureSession

CONSTANT usb

Setting(mic, autoSend, micPrivacy) ==
  [mic |-> mic, autoSend |-> autoSend, micPrivacy |-> micPrivacy]

\* Auto-send on, no preroll: what is said is all that can be recorded.
AutoSending == Setting(DefaultDevice, TRUE, TRUE)
OnlyAutoSending == {AutoSending}

\* The user moves from a microphone to the default one, or makes it private.
UsbMonitored == Setting(usb, TRUE, FALSE)
DefaultMonitored == Setting(DefaultDevice, TRUE, FALSE)
MovingSettings == {DefaultMonitored, Setting(usb, TRUE, TRUE)}

\* One microphone, preroll on.
UsbOnly == {UsbMonitored}
=============================================================================

----------------------------- MODULE MCDevices -----------------------------
(***************************************************************************)
(* The devices checked one at a time in one run: the SD card, the system   *)
(* management controller behind its bus, a VIA's timers, the way of sound  *)
(* to the host, a MIDI port with its driver, VERA's sound queue and        *)
(* interrupts, and the machine's clocks with its save states.  They share  *)
(* no state but that the interrupts read the queue; a behaviour is one     *)
(* device's, chosen at the start.                                          *)
(***************************************************************************)
EXTENDS SdCard, SmcBus, ViaTimers, AudioRing, MidiUart, VeraIrq, SaveState

CONSTANT Devices   \* which of them to start

VARIABLE device

Requests == {<<0, 0>>, <<8, 0>>, <<12, 0>>, <<13, 0>>, <<17, 1>>, <<18, 0>>, <<18, 1>>,
             <<18, 2>>, <<24, 0>>, <<24, 2>>, <<41, 0>>, <<55, 0>>}

\* Enough to abandon a multiple read.
FewRequests == {<<0, 0>>, <<18, 0>>, <<24, 0>>}

\* The guest asks for a key, or makes mouse packets the default answer, or a
\* key and a packet, and takes one; it speaks to a device that is not there and
\* then presses the reset button.
Ask(bytes, reads, last) ==
    [device |-> Smc, bytes |-> bytes, reads |-> reads, last |-> last]

GuestPrograms ==
    { << Ask(<<ReadKey>>, 1, 0) >>,
      << Ask(<<SetDefault, DefaultMouse>>, 0, 0), Ask(<<>>, 4, 1) >>,
      << Ask(<<SetDefault, DefaultBoth>>, 0, 0), Ask(<<>>, 5, 2) >>,
      << [Ask(<<ReadKey>>, 1, 0) EXCEPT !.device = 16],
         Ask(<<ResetButton, 0>>, 0, 0) >> }

\* Host rates near VERA's own: the one makes the YM2151 fall behind, the other
\* VERA, by what is lost in rounding.
HostRates == {[vera |-> 8, ym |-> 10], [vera |-> 8, ym |-> 11]}

\* A much higher rate.
FastRates == {[vera |-> 3, ym |-> 4]}

\* Notes of two channels' statuses, and one of each kind besides.
MidiMessages ==
    {<<144, 1, 2>>, <<128, 1, 2>>, <<192, 3>>, <<TimeCode, 4>>, <<TuneRequest>>, <<Clocking>>,
     <<SysEx, 5, SysExEnd>>}

\* The transmitter's interrupt below both others.
GuestEnables == {{"status", "data", "thre"}}

DevicesInit ==
    /\ device \in Devices
    /\ CardInit /\ SmcInit /\ ViaInit /\ AudioInit /\ MidiInit /\ VeraInit /\ StateInit
    \* The choices of the devices that do not run.
    /\ device # "card" => attached
    /\ device # "audio" => rate = CHOOSE r \in Rates : TRUE
    /\ device # "states" => ~served /\ ~halted /\ ~card

\* The driver with a port that only listens, and the port with a driver it keeps
\* up with, that hears bytes of one kind.
DevicesNext ==
    \/ device = "card" /\ CardNext
       /\ UNCHANGED <<device, smcVars, via, audioVars, midiVars, veraVars, stateVars>>
    \/ device = "smc" /\ SmcNext
       /\ UNCHANGED <<device, sdVars, via, audioVars, midiVars, veraVars, stateVars>>
    \/ device = "via" /\ ViaNext
       /\ UNCHANGED <<device, sdVars, smcVars, audioVars, midiVars, veraVars, stateVars>>
    \/ device = "audio" /\ AudioNext
       /\ UNCHANGED <<device, sdVars, smcVars, via, midiVars, veraVars, stateVars>>
    \/ device = "driver" /\ (Hear \/ Bit \/ ResetMidi)
       /\ UNCHANGED <<device, sdVars, smcVars, via, audioVars, veraVars, stateVars>>
    \/ device = "port" /\ MidiNext
       /\ uart'.heard \in {<<>>, <<TuneRequest>>}
       /\ UNCHANGED <<device, sdVars, smcVars, via, audioVars, veraVars, stateVars>>
    \/ device = "sound" /\ Sound
       /\ UNCHANGED <<device, sdVars, smcVars, via, audioVars, midiVars, stateVars>>
    \/ device = "screen" /\ Screen
       /\ UNCHANGED <<device, sdVars, smcVars, via, audioVars, midiVars, stateVars>>
    \/ device = "states" /\ StateNext
       /\ UNCHANGED <<device, sdVars, smcVars, via, audioVars, midiVars, veraVars>>

devicesVars == <<device, sdVars, smcVars, via, audioVars, midiVars, veraVars, stateVars>>

DevicesSpec == DevicesInit /\ [][DevicesNext]_devicesVars

\* ViaTimers's ClocksAreCountedElse, where the timers run.
TimersCountClocks == device = "via" => ClocksAreCountedElse
=============================================================================

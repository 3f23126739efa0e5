---------------------------- MODULE SoundDevice ----------------------------
(***************************************************************************)
(* Which sound devices the server can capture from, by asource_init        *)
(* (module/asource-system/asource-system.cpp): ALSA's (ga-alsa.cpp), which *)
(* is asked for a format, and the loop-back of WASAPI on Windows           *)
(* (ga-win32-wasapi.cpp), whose mix format is taken or refused.            *)
(*                                                                         *)
(* conf is what the configuration asks for; a device is a record of what   *)
(* it offers.                                                              *)
(***************************************************************************)
EXTENDS Integers

bits_per_sample == [s16 |-> 16]

(* Of floats only their format is asked after, whatever their size.        *)
check_wave_format(dev, conf) ==
    /\ dev.tag \in {"pcm", "extensible pcm", "extensible float"}
    /\ dev.channels = 2
    /\ dev.samplerate = conf.samplerate
    /\ dev.tag = "extensible float" \/ dev.bits = bits_per_sample[conf.device_format]

(* Any rate is taken that ALSA chooses near the one that is asked for.     *)
ga_alsa_set_param(dev, conf) ==
    /\ dev.interleaved /\ conf.device_format \in dev.formats
    /\ conf.channels \in dev.channels
    /\ dev.period # dev.buffer_size

(* Another program may have opened the "default" device.                   *)
ga_alsa_init(dev) == ~dev.busy

(* Whether the device is set up, when no call of the system fails.         *)
set_up(dev, conf) ==
    /\ conf.device_format \in DOMAIN bits_per_sample
    /\ conf.channel_layout = "stereo"
    /\ \/ dev.interface = "wasapi" /\ check_wave_format(dev, conf)
       \/ dev.interface = "alsa" /\ ga_alsa_init(dev) /\ ga_alsa_set_param(dev, conf)
=============================================================================

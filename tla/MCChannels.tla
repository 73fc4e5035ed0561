----------------------------- MODULE MCChannels -----------------------------
(* Channels on the instances of channels.cfg and channels_lapse.cfg.        *)
EXTENDS Channels
=============================================================================

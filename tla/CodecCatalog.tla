----------------------------- MODULE CodecCatalog -----------------------------
(***************************************************************************)
(* What the codec plugins of modules/ bring to the registry: the identity  *)
(* each factory gives its codec (CodecInfo, as far as lookups compare it), *)
(* and per plugin the factories that onLoad() registers, in order, and the *)
(* names that onUnload() takes back, which are literals of their own.      *)
(* AMRWB stands for AMR-WB.                                                *)
(***************************************************************************)
EXTENDS Sequences, Naturals

codecInfo(rate, chans, pt) == [clockRate |-> rate, channels |-> chans, defaultPayloadType |-> pt]

\* Static payload types are those of RFC 3551; 0 also stands for a dynamic one.
makePcmuInfo == codecInfo(8000, 1, 0)
makePcmaInfo == codecInfo(8000, 1, 8)
makeG722Info == codecInfo(8000, 1, 9)
makeG729Info == codecInfo(8000, 1, 18)
makeIlbcInfo == codecInfo(8000, 1, 0)
makeAmrNbInfo == codecInfo(8000, 1, 0)
makeAmrWbInfo == codecInfo(16000, 1, 0)
makeOpusInfo == codecInfo(48000, 2, 111)
makeVp8Info == codecInfo(90000, 0, 0)
makeVp9Info == codecInfo(90000, 0, 0)
makeH264Info == codecInfo(90000, 0, 0)
makeAv1Info == codecInfo(90000, 0, 0)

Catalog ==
  [PCMU |-> makePcmuInfo, PCMA |-> makePcmaInfo, G722 |-> makeG722Info, G729 |-> makeG729Info,
   iLBC |-> makeIlbcInfo, AMR |-> makeAmrNbInfo, AMRWB |-> makeAmrWbInfo, opus |-> makeOpusInfo,
   VP8 |-> makeVp8Info, VP9 |-> makeVp9Info, H264 |-> makeH264Info, AV1 |-> makeAv1Info]

plugin(loads, unloads) == [registers |-> loads, withdraws |-> unloads]

mod_g711 == plugin(<<"PCMU", "PCMA">>, <<"PCMU", "PCMA">>)
mod_g722 == plugin(<<"G722">>, <<"G722">>)
mod_g729 == plugin(<<"G729">>, <<"G729">>)
mod_ilbc == plugin(<<"iLBC">>, <<"iLBC">>)
mod_amr  == plugin(<<"AMR", "AMRWB">>, <<"AMR", "AMRWB">>)
mod_opus == plugin(<<"opus">>, <<"opus">>)
mod_vpx  == plugin(<<"VP8", "VP9">>, <<"VP8", "VP9">>)
mod_h264 == plugin(<<"H264">>, <<"H264">>)
mod_av1  == plugin(<<"AV1">>, <<"AV1">>)

CodecPlugins ==
  [g711 |-> mod_g711, g722 |-> mod_g722, g729 |-> mod_g729, ilbc |-> mod_ilbc, amr |-> mod_amr,
   opus |-> mod_opus, vpx |-> mod_vpx, h264 |-> mod_h264, av1 |-> mod_av1]

=============================================================================

----------------------------- MODULE MCSendPath -----------------------------
EXTENDS SendPath

MCSizeOf == [video |-> 4, audio |-> 1, padding |-> 2]
MCRates == {<<4, 0>>}
MCNacks == {<<0>>, <<0, 1>>}
MCSsrcs == {"video", "audio"}
=============================================================================

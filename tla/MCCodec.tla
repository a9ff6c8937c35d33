------------------------------- MODULE MCCodec -------------------------------
EXTENDS Codec

\* No host, and one of two characters.
MCHost == {<<>>, <<49, 46>>}

==============================================================================

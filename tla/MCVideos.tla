------------------------------ MODULE MCVideos ------------------------------
EXTENDS VideoMirror, TLC
=============================================================================

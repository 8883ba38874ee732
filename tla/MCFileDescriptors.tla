------------------------ MODULE MCFileDescriptors ------------------------
EXTENDS FileDescriptors
=============================================================================

---------------------------- MODULE MCDiskFiles ----------------------------
EXTENDS DiskFiles
MCOptions == {{}, {"link-remap", "file-locks"}}
=============================================================================

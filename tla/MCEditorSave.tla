---------------------------- MODULE MCEditorSave ----------------------------
\* Instances of EditorSave for TLC: every bound is a number of its
\* configuration.
EXTENDS EditorSave
=============================================================================

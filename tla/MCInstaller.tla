----------------------------- MODULE MCInstaller -----------------------------
EXTENDS Installer

\* The claude command, which may be missing, with two files; and three files.
MCSelections == {{"cli", "cursor", "kiro"}, {"codex", "claude", "kiro"}}
=============================================================================

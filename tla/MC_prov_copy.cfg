\* create_cluster.py from its command line to the first add_nodes call: the
\* kops pod starts late or never, each remote tar ends before or after the
\* script's read window, any local file may be missing.  The script stops
\* at its first exception, so deadlock is not checked.
CONSTANTS
    kubeconfig = kubeconfig
    sshkey = sshkey
    sshpub = sshpub
    NoFile = NoFile
    CopyFiles <- MC_CopyFiles
    ArgCounts <- MC_ArgCounts

SPECIFICATION Spec

INVARIANT KopsPodConfigured

CHECK_DEADLOCK FALSE

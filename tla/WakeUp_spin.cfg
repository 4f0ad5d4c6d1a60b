\* Two workers and one upload.
SPECIFICATION Spec
CONSTANTS
    Workers = {w1, w2}
    MaxUploads = 1
INVARIANT OneExtraPoll

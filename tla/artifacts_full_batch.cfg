SPECIFICATION FairSpec
CONSTANTS
  Upload = {u1, u2}
  Draft = {d1}
  Unwanted = {}
  Maint = {x1}
  Nobody = Nobody
  NoUpload = NoUpload
  Batch = 1
PROPERTY ExpiredUploadsLeave
